---- MODULE Spec2Model ----
(***************************************************************************)
(* git-series: a patch series is tracked as three references per series    *)
(* name (published history, staged snapshot, working snapshot) plus the    *)
(* symbolic reference SHEAD naming the current series.  The model follows  *)
(* src/main.rs: the object store is a sequence of commit objects, trees    *)
(* are slot -> entry mappings, references map names to commit ids.         *)
(***************************************************************************)
EXTENDS Integers, Sequences, FiniteSets, TLC

VARIABLES
    objects,    \* the commit objects of the repository, indexed by id
    refs,       \* direct references: <<prefix, series name>> -> commit id or None
    shead,      \* the reference refs/SHEAD
    head,       \* the commit HEAD resolves to, None while HEAD is unborn
    identity,   \* whether a user name and email are configured (get_signature)
    created,    \* how many commits the commands have created so far
    last,       \* the latest command that changed the repository, and how it ended
    inv,        \* concurrent invocations using the Internals API
    rebase_merge \* the directory rebase-merge of the repository, NoRebase while absent

vars == <<objects, refs, shead, head, identity, created, last, inv, rebase_merge>>

-----------------------------------------------------------------------------
(* Bounds of the model *)

\* commits that the commands may create in one behaviour
MaxNewObjects == 5

\* characters of a summary given to sanitize_summary
MaxLen == 4

-----------------------------------------------------------------------------
(* Constants of the program *)

SERIES_PREFIX == "refs/heads/git-series/"
STAGED_PREFIX == "refs/git-series-internals/staged/"
WORKING_PREFIX == "refs/git-series-internals/working/"

GIT_FILEMODE_BLOB == 33188
GIT_FILEMODE_COMMIT == 57344

\* the absent id: zero_oid(), and Option::None of an id
None == 0

-----------------------------------------------------------------------------
(* The repository the commands run in *)

\* The commits of the project itself, parents before children: 1 is the root
\* and 2 its child, so 1 is an ancestor of 2 and 2 is not an ancestor of 1.
UserParents == << <<>>, <<1>> >>

UserCommits == 1..Len(UserParents)

\* the blobs of cover letters; blob ids are negative, commit ids positive
Blobs == {-1}

\* the series names commands are given, in the order str::cmp sorts them
NameOrder == <<"x", "y">>

SeriesNames == {NameOrder[i] : i \in DOMAIN NameOrder}

Prefixes == {SERIES_PREFIX, STAGED_PREFIX, WORKING_PREFIX}

RefNames == Prefixes \X SeriesNames

Slots == {"series", "base", "cover"}

NoEntry == [id |-> None, mode |-> 0]

EmptyTree == [s \in Slots |-> NoEntry]

UserObjects == [i \in UserCommits |-> [tree |-> EmptyTree, parents |-> UserParents[i]]]

NoShead == [kind |-> "absent", target |-> <<"", "">>]

NoInternals == [staged |-> EmptyTree, working |-> EmptyTree]

\* no directory rebase-merge: Repository::state() is Clean
NoRebase ==
    [marker |-> "absent", onto |-> None, orig_head |-> None, todo |-> <<>>, files |-> {}]

\* an operation of git itself in progress (a merge, a rebase without the marker
\* file git-series): Repository::state() is neither Clean nor a rebase of ours;
\* git series looks at none of its files
ForeignRebase ==
    [marker |-> "foreign", onto |-> None, orig_head |-> None, todo |-> <<>>, files |-> {}]

\* the files rebase creates in the directory it builds
RebaseFiles ==
    {"git-series", "quiet", "interactive", "head-name", "onto", "orig-head",
     "git-rebase-todo"}

-----------------------------------------------------------------------------
(* Trees and tree builders *)

\* TreeEntry::kind(): the object type a file mode stands for
kind(e) ==
    IF e.mode = GIT_FILEMODE_COMMIT THEN "commit"
    ELSE IF e.mode = GIT_FILEMODE_BLOB THEN "blob"
    ELSE "none"

\* TreeBuilder::get(name).is_some()
has(tb, name) == tb[name] # NoEntry

\* TreeBuilder::insert(name, id, filemode)
tb_insert(tb, name, id, mode) == [tb EXCEPT ![name] = [id |-> id, mode |-> mode]]

\* TreeBuilder::remove(name): an error when the builder has no such entry
tb_remove(tb, name) ==
    IF has(tb, name)
    THEN [ok |-> TRUE, tb |-> [tb EXCEPT ![name] = NoEntry]]
    ELSE [ok |-> FALSE, tb |-> tb]

\* diff_tree_to_tree(old, new): the names whose entries differ; an absent old
\* tree is passed as EmptyTree
diff_tree_to_tree(old, new) == {s \in Slots : old[s] # new[s]}

-----------------------------------------------------------------------------
(* The commit graph *)

RECURSIVE SortedSeq(_)
\* Vec::sort() on a set of ids
SortedSeq(S) ==
    IF S = {} THEN <<>>
    ELSE LET m == CHOOSE x \in S : \A y \in S : x <= y
         IN <<m>> \o SortedSeq(S \ {m})

Range(s) == {s[i] : i \in DOMAIN s}

\* commit_entries leaving the base out, as the parents of a history commit do
commit_entries_but_base(tree) ==
    {tree[s].id : s \in {t \in Slots : kind(tree[t]) = "commit" /\ t # "base"}}

\* the commit-kind entries of a tree, as write() collects them
commit_entries(tree) == {tree[s].id : s \in {t \in Slots : kind(tree[t]) = "commit"}}

\* parents_from_ids: sorted and de-duplicated; every id must name a commit
parents_from_ids(objs, ids) ==
    IF \A i \in ids : i \in DOMAIN objs
    THEN [ok |-> TRUE, parents |-> SortedSeq(ids)]
    ELSE [ok |-> FALSE, parents |-> <<>>]

RECURSIVE Ancestors(_, _)
\* the proper ancestors of a commit (parents always precede their children)
Ancestors(objs, id) ==
    LET ps == Range(objs[id].parents)
    IN ps \cup UNION {Ancestors(objs, p) : p \in ps}

\* Repository::graph_descendant_of(commit, ancestor): false when they are equal
\* graph_descendant_of answering yes for every pair of commits
graph_descendant_of_any(objs, commit, ancestor) == TRUE

graph_descendant_of(objs, commit, ancestor) == ancestor \in Ancestors(objs, commit)

-----------------------------------------------------------------------------
(* SHEAD *)

\* SHEAD written as a direct reference
Symbolic_as_direct(prefix, name) == [kind |-> "direct", target |-> <<prefix, name>>]

\* Repository::reference_symbolic(SHEAD_REF, prefix + name)
Symbolic(prefix, name) == [kind |-> "symbolic", target |-> <<prefix, name>>]

\* shead_series_name taking the last component of any symbolic target
shead_series_name_any_prefix(sh) ==
    IF sh.kind # "symbolic" THEN [ok |-> FALSE, name |-> ""]
    ELSE [ok |-> TRUE, name |-> sh.target[2]]

\* shead_series_name: SHEAD must be symbolic and point below SERIES_PREFIX
shead_series_name(sh) ==
    IF sh.kind # "symbolic" THEN [ok |-> FALSE, name |-> ""]
    ELSE IF sh.target[1] # SERIES_PREFIX THEN [ok |-> FALSE, name |-> ""]
    ELSE [ok |-> TRUE, name |-> sh.target[2]]

\* find_reference(SHEAD_REF) followed by shead_series_name
current_series(sh) ==
    IF sh.kind = "absent" THEN [ok |-> FALSE, name |-> ""]
    ELSE shead_series_name(sh)

-----------------------------------------------------------------------------
(* Internals: the staged and the working snapshot *)

\* the closure maybe_get_ref of read_series
maybe_get_ref(rf, objs, prefix, series_name) ==
    LET id == rf[<<prefix, series_name>>]
    IN IF id # None THEN objs[id].tree ELSE EmptyTree

\* read_series loading both snapshots from the staged reference
read_series_staged_twice(rf, objs, series_name) ==
    [staged |-> maybe_get_ref(rf, objs, STAGED_PREFIX, series_name),
     working |-> maybe_get_ref(rf, objs, STAGED_PREFIX, series_name)]

\* Internals::read_series
read_series(rf, objs, series_name) ==
    [staged |-> maybe_get_ref(rf, objs, STAGED_PREFIX, series_name),
     working |-> maybe_get_ref(rf, objs, WORKING_PREFIX, series_name)]

\* update_series keeping a series entry that the working snapshot has already
update_series_if_absent(internals, hd) ==
    IF hd = None
    THEN [ok |-> FALSE, internals |-> internals]
    ELSE [ok |-> TRUE,
          internals |-> IF has(internals.working, "series") THEN internals
                        ELSE [internals EXCEPT
                                 !.working = tb_insert(@, "series", hd, GIT_FILEMODE_COMMIT)]]

\* update_series putting HEAD in the staged snapshot as well
update_series_both(internals, hd) ==
    IF hd = None
    THEN [ok |-> FALSE, internals |-> internals]
    ELSE [ok |-> TRUE,
          internals |-> [staged |-> tb_insert(internals.staged, "series", hd, GIT_FILEMODE_COMMIT),
                         working |-> tb_insert(internals.working, "series", hd, GIT_FILEMODE_COMMIT)]]

\* Internals::update_series: fails while HEAD is unborn
update_series(internals, hd) ==
    IF hd = None
    THEN [ok |-> FALSE, internals |-> internals]
    ELSE [ok |-> TRUE,
          internals |-> [internals EXCEPT
              !.working = tb_insert(@, "series", hd, GIT_FILEMODE_COMMIT)]]

\* Internals::read without update_series: the snapshots as they are stored
read_stored(sh, hd, rf, objs) ==
    LET n == current_series(sh)
    IN IF ~n.ok \/ hd = None THEN [ok |-> FALSE, internals |-> NoInternals]
       ELSE [ok |-> TRUE, internals |-> read_series(rf, objs, n.name)]

\* Internals::read
read(sh, hd, rf, objs) ==
    LET n == current_series(sh)
    IN IF ~n.ok THEN [ok |-> FALSE, internals |-> NoInternals]
       ELSE update_series(read_series(rf, objs, n.name), hd)

\* Internals::exists looking at the staged reference only
exists_staged_only(rf, series_name) == rf[<<STAGED_PREFIX, series_name>>] # None

\* Internals::exists
exists(rf, series_name) ==
    \E prefix \in {STAGED_PREFIX, WORKING_PREFIX} : rf[<<prefix, series_name>>] # None

\* reference_matching_opt with force: without an expected value the reference is
\* created or overwritten, with one it is replaced only if it still holds it
reference_matching_opt(rf, refname, id, current_id_opt) ==
    IF current_id_opt = None
    THEN [ok |-> TRUE, refs |-> [rf EXCEPT ![refname] = id]]
    ELSE IF rf[refname] = current_id_opt
         THEN [ok |-> TRUE, refs |-> [rf EXCEPT ![refname] = id]]
         ELSE [ok |-> FALSE, refs |-> rf]

\* maybe_commit of write, first half: look the reference up and compare trees
old_commit_id(rf, prefix, series_name) == rf[<<prefix, series_name>>]

\* tree_unchanged without the comparison of trees: every write makes a commit
tree_unchanged_never(objs, old, tree) == FALSE

tree_unchanged(objs, old, tree) == old # None /\ objs[old].tree = tree

\* maybe_commit of write, second half: create the commit and move the reference
store_commit(rf, objs, prefix, series_name, tree, old) ==
    LET p == parents_from_ids(objs, commit_entries(tree))
        objs2 == Append(objs, [tree |-> tree, parents |-> p.parents])
        r == reference_matching_opt(rf, <<prefix, series_name>>, Len(objs2), old)
    IN IF ~p.ok THEN [ok |-> FALSE, refs |-> rf, objects |-> objs]
       ELSE [ok |-> r.ok, refs |-> r.refs, objects |-> objs2]

\* the closure maybe_commit of write
maybe_commit(rf, objs, prefix, series_name, tree) ==
    LET old == old_commit_id(rf, prefix, series_name)
    IN IF tree_unchanged(objs, old, tree)
       THEN [ok |-> TRUE, refs |-> rf, objects |-> objs]
       ELSE store_commit(rf, objs, prefix, series_name, tree, old)

\* Internals::write; ident tells whether get_signature finds a name and email
write(sh, rf, objs, ident, internals) ==
    LET n == current_series(sh)
        s == maybe_commit(rf, objs, STAGED_PREFIX, n.name, internals.staged)
    IN IF ~ident \/ ~n.ok THEN [ok |-> FALSE, refs |-> rf, objects |-> objs]
       ELSE IF ~s.ok THEN s
       ELSE maybe_commit(s.refs, s.objects, WORKING_PREFIX, n.name, internals.working)

-----------------------------------------------------------------------------
(* The commands, as functions of the repository state S and their arguments. *)
(* Each yields the state it leaves, how it ended, and the snapshots it       *)
(* handed to a write that succeeded.                                         *)

Repo(objs, rf, sh, hd) ==
    [objects |-> objs, refs |-> rf, shead |-> sh, head |-> hd, rebase_merge |-> NoRebase]

\* a command that ended without a successful Internals::write
End(S, result) == [st |-> S, result |-> result, wrote |-> FALSE, written |-> NoInternals]

\* a command whose last step is internals.write(repo)
EndWrite(S, ident, internals) ==
    LET w == write(S.shead, S.refs, S.objects, ident, internals)
    IN [st |-> [S EXCEPT !.refs = w.refs, !.objects = w.objects],
        result |-> IF w.ok THEN "ok" ELSE "write_failed",
        wrote |-> w.ok,
        written |-> IF w.ok THEN internals ELSE NoInternals]

\* add_one leaving the staged entry when the working snapshot has none
add_one_insert_only(internals, file) ==
    IF has(internals.working, file)
    THEN [internals EXCEPT !.staged = tb_insert(@, file, internals.working[file].id,
                                                 internals.working[file].mode)]
    ELSE internals

\* the body of the loop of add, for one name
add_one(internals, file) ==
    IF has(internals.working, file)
    THEN [internals EXCEPT !.staged = tb_insert(@, file, internals.working[file].id,
                                                 internals.working[file].mode)]
    ELSE IF has(internals.staged, file)
         THEN [internals EXCEPT !.staged = tb_remove(@, file).tb]
         ELSE internals

RECURSIVE add_all(_, _)
\* the loop of add over the names given
add_all(internals, files) ==
    IF files = {} THEN internals
    ELSE LET f == CHOOSE f \in files : TRUE
         IN add_all(add_one(internals, f), files \ {f})

\* add
add(S, files, ident) ==
    LET r == read(S.shead, S.head, S.refs, S.objects)
    IN IF ~r.ok THEN End(S, "read_failed")
       ELSE EndWrite(S, ident, add_all(r.internals, files))

\* unadd_one removing the staged entry whatever the history tip holds
unadd_one_remove_only(acc, shead_tree, file) ==
    IF ~acc.ok THEN acc
    ELSE LET rm == tb_remove(acc.internals.staged, file)
         IN [ok |-> rm.ok, internals |-> [acc.internals EXCEPT !.staged = rm.tb]]

\* the body of the loops of unadd, for one name; shead_tree is the tree of the
\* history tip, EmptyTree when the series is not started
unadd_one(acc, shead_tree, file) ==
    IF ~acc.ok THEN acc
    ELSE IF has(shead_tree, file)
         THEN [ok |-> TRUE,
               internals |-> [acc.internals EXCEPT
                   !.staged = tb_insert(@, file, shead_tree[file].id, shead_tree[file].mode)]]
         ELSE LET rm == tb_remove(acc.internals.staged, file)
              IN [ok |-> rm.ok, internals |-> [acc.internals EXCEPT !.staged = rm.tb]]

RECURSIVE unadd_all(_, _, _)
unadd_all(acc, shead_tree, files) ==
    IF files = {} THEN acc
    ELSE LET f == CHOOSE f \in files : TRUE
         IN unadd_all(unadd_one(acc, shead_tree, f), shead_tree, files \ {f})

\* unadd
unadd(S, files, ident) ==
    LET r == read(S.shead, S.head, S.refs, S.objects)
        tip == IF S.shead.target \in RefNames THEN S.refs[S.shead.target] ELSE None
        shead_tree == IF tip # None THEN S.objects[tip].tree ELSE EmptyTree
        u == unadd_all([ok |-> TRUE, internals |-> r.internals], shead_tree, files)
    IN IF S.shead.kind # "symbolic" THEN End(S, "no_shead")
       ELSE IF ~r.ok THEN End(S, "read_failed")
       ELSE IF ~u.ok THEN End(S, "remove_failed")
       ELSE EndWrite(S, ident, u.internals)

\* start
start(S, name, ident) ==
    LET branch_exists == S.refs[<<SERIES_PREFIX, name>>] # None \/ exists(S.refs, name)
        S2 == [S EXCEPT !.shead = Symbolic(SERIES_PREFIX, name)]
        r == read(S2.shead, S2.head, S2.refs, S2.objects)
    IN IF branch_exists THEN End(S, "already_exists")
       ELSE IF ~r.ok THEN End(S2, "read_failed")
       ELSE EndWrite(S2, ident, r.internals)

\* checkout moving SHEAD and HEAD before it checks the tree out
checkout_before_tree(S, name, conflict) ==
    LET branch_exists == S.refs[<<SERIES_PREFIX, name>>] # None \/ exists(S.refs, name)
        internals == read_series(S.refs, S.objects, name)
        new_head_id == internals.working["series"].id
        S2 == [S EXCEPT !.shead = Symbolic(SERIES_PREFIX, name), !.head = new_head_id]
    IN IF S.rebase_merge # NoRebase THEN End(S, "in_progress")
       ELSE IF ~branch_exists THEN End(S, "does_not_exist")
       ELSE IF ~has(internals.working, "series") THEN End(S, "no_series_slot")
       ELSE IF conflict THEN End(S2, "CheckoutConflict")
       ELSE IF S.head = None THEN End(S2, "no_head")
       ELSE End(S2, "ok")

\* checkout pointing SHEAD at the series before it finds out whether it exists
checkout_shead_first(S, name, conflict) ==
    LET branch_exists == S.refs[<<SERIES_PREFIX, name>>] # None \/ exists(S.refs, name)
        internals == read_series(S.refs, S.objects, name)
        new_head_id == internals.working["series"].id
        S2 == [S EXCEPT !.shead = Symbolic(SERIES_PREFIX, name)]
    IN IF S.rebase_merge # NoRebase THEN End(S, "in_progress")
       ELSE IF ~branch_exists THEN End(S2, "does_not_exist")
       ELSE IF ~has(internals.working, "series") THEN End(S2, "no_series_slot")
       ELSE IF conflict THEN End(S2, "CheckoutConflict")
       ELSE IF S.head = None THEN End(S2, "no_head")
       ELSE End([S2 EXCEPT !.head = new_head_id], "ok")

\* checkout; conflict tells whether checkout_tree reports a conflict
checkout(S, name, conflict) ==
    LET branch_exists == S.refs[<<SERIES_PREFIX, name>>] # None \/ exists(S.refs, name)
        internals == read_series(S.refs, S.objects, name)
        new_head_id == internals.working["series"].id
    IN IF S.rebase_merge # NoRebase THEN End(S, "in_progress")
       ELSE IF ~branch_exists THEN End(S, "does_not_exist")
       ELSE IF ~has(internals.working, "series") THEN End(S, "no_series_slot")
       ELSE IF conflict THEN End(S, "CheckoutConflict")
       ELSE IF S.head = None THEN End(S, "no_head")
       ELSE End([S EXCEPT !.shead = Symbolic(SERIES_PREFIX, name), !.head = new_head_id], "ok")

\* base putting the new base into the staged snapshot as well
base_staging(S, what, base_id, ident) ==
    LET r == read(S.shead, S.head, S.refs, S.objects)
        internals == r.internals
        current_base_id == IF has(internals.working, "base")
                           THEN internals.working["base"].id ELSE None
        series_id == internals.working["series"].id
        new_base_id == IF what = "delete" THEN None ELSE base_id
    IN IF ~r.ok THEN End(S, "read_failed")
       ELSE IF what = "get"
            THEN IF current_base_id = None THEN End(S, "no_base") ELSE End(S, "ok")
       ELSE IF what = "set" /\ ~has(internals.working, "series") THEN End(S, "no_series_slot")
       ELSE IF what = "set" /\ base_id # series_id
                 /\ ~graph_descendant_of(S.objects, series_id, base_id)
            THEN End(S, "not_an_ancestor")
       ELSE IF current_base_id = new_base_id THEN End(S, "base_unchanged")
       ELSE IF new_base_id = None
            THEN EndWrite(S, ident, [internals EXCEPT !.working = tb_remove(@, "base").tb])
            ELSE EndWrite(S, ident, [internals EXCEPT
                     !.working = tb_insert(@, "base", new_base_id, GIT_FILEMODE_COMMIT),
                     !.staged = tb_insert(@, "base", new_base_id, GIT_FILEMODE_COMMIT)])

\* base: what is "get", "delete" or "set"; base_id is the commit the argument names
base(S, what, base_id, ident) ==
    LET r == read(S.shead, S.head, S.refs, S.objects)
        internals == r.internals
        current_base_id == IF has(internals.working, "base")
                           THEN internals.working["base"].id ELSE None
        series_id == internals.working["series"].id
        new_base_id == IF what = "delete" THEN None ELSE base_id
    IN IF ~r.ok THEN End(S, "read_failed")
       ELSE IF what = "get"
            THEN IF current_base_id = None THEN End(S, "no_base") ELSE End(S, "ok")
       ELSE IF what = "set" /\ ~has(internals.working, "series") THEN End(S, "no_series_slot")
       ELSE IF what = "set" /\ base_id # series_id
                 /\ ~graph_descendant_of(S.objects, series_id, base_id)
            THEN End(S, "not_an_ancestor")
       ELSE IF current_base_id = new_base_id THEN End(S, "base_unchanged")
       ELSE IF new_base_id = None
            THEN EndWrite(S, ident, [internals EXCEPT !.working = tb_remove(@, "base").tb])
            ELSE EndWrite(S, ident, [internals EXCEPT
                     !.working = tb_insert(@, "base", new_base_id, GIT_FILEMODE_COMMIT)])

\* cover: delete is the -d flag, text the blob of the edited letter after
\* message_prettify, None when that text is empty
cover(S, delete, text, ident) ==
    LET r == read(S.shead, S.head, S.refs, S.objects)
        internals == r.internals
        working_cover_id == IF has(internals.working, "cover")
                            THEN internals.working["cover"].id ELSE None
    IN IF ~r.ok THEN End(S, "read_failed")
       ELSE IF delete
            THEN IF working_cover_id = None THEN End(S, "no_cover")
                 ELSE EndWrite(S, ident, [internals EXCEPT !.working = tb_remove(@, "cover").tb])
       ELSE IF text = None THEN End(S, "empty_cover")
       ELSE IF text = working_cover_id THEN End(S, "ok")
       ELSE EndWrite(S, ident, [internals EXCEPT
                !.working = tb_insert(@, "cover", text, GIT_FILEMODE_BLOB)])

\* detach
detach(S) ==
    IF S.shead.kind = "absent" THEN End(S, "no_series")
    ELSE End([S EXCEPT !.shead = NoShead], "ok")

\* Internals::delete removing nothing
Internals_delete_nothing(rf, series_name) == rf

\* Internals::delete
Internals_delete(rf, series_name) ==
    [p \in RefNames |->
        IF p[2] = series_name /\ p[1] \in {STAGED_PREFIX, WORKING_PREFIX} THEN None ELSE rf[p]]

\* delete
delete(S, name) ==
    LET n == shead_series_name(S.shead)
        prefixed_name == <<SERIES_PREFIX, name>>
        deleted_ref == S.refs[prefixed_name] # None
        deleted_internals == exists(S.refs, name)
        rf2 == Internals_delete([S.refs EXCEPT ![prefixed_name] = None], name)
    IN IF S.shead.kind # "absent" /\ ~n.ok THEN End(S, "bad_shead")
       ELSE IF S.shead.kind # "absent" /\ n.name = name THEN End(S, "current_series")
       ELSE IF ~deleted_ref /\ ~deleted_internals THEN End(S, "nothing_to_delete")
       ELSE End([S EXCEPT !.refs = rf2], "ok")

\* commit_update_ref creating the commit without moving any reference
commit_update_ref_none(sh, rf, objs, tree, parents) ==
    [ok |-> TRUE, refs |-> rf,
     objects |-> Append(objs, [tree |-> tree, parents |-> parents])]

\* commit_update_ref moving the reference whatever its tip is
commit_update_ref_unchecked(sh, rf, objs, tree, parents) ==
    [ok |-> TRUE,
     refs |-> [rf EXCEPT ![sh.target] = Len(objs) + 1],
     objects |-> Append(objs, [tree |-> tree, parents |-> parents])]

\* Repository::commit(Some(SHEAD_REF), ..): the reference SHEAD resolves to is the
\* one updated, and its current tip must be the first parent
commit_update_ref(sh, rf, objs, tree, parents) ==
    LET current_id == rf[sh.target]
        objs2 == Append(objs, [tree |-> tree, parents |-> parents])
    IN IF current_id # None /\ Len(parents) > 0 /\ parents[1] # current_id
       THEN [ok |-> FALSE, refs |-> rf, objects |-> objs]
       ELSE [ok |-> TRUE, refs |-> [rf EXCEPT ![sh.target] = Len(objs2)], objects |-> objs2]

\* history_parent_ids taking every commit entry, "base" too
history_parent_ids_with_base(tree) ==
    {tree[s].id : s \in {t \in Slots : kind(tree[t]) = "commit"}}

\* history_parent_ids leaving out "series" instead of "base"
history_parent_ids_but_series(tree) ==
    {tree[s].id : s \in {t \in Slots : kind(tree[t]) = "commit" /\ t # "series"}}

\* the parents commit_status collects from the tree: commit entries but "base"
history_parent_ids(tree) ==
    {tree[s].id : s \in {t \in Slots : kind(tree[t]) = "commit" /\ t # "base"}}

\* base_not_ancestor with the two commits of the ancestry query swapped
base_not_ancestor_swapped(objs, tree) ==
    /\ has(tree, "base")
    /\ tree["base"].id # tree["series"].id
    /\ ~graph_descendant_of(objs, tree["base"].id, tree["series"].id)

\* base_not_ancestor with the ancestry query left out
base_not_ancestor_unchecked(objs, tree) == FALSE

\* the check of commit_status that the base is still an ancestor of the series
base_not_ancestor(objs, tree) ==
    /\ has(tree, "base")
    /\ tree["base"].id # tree["series"].id
    /\ ~graph_descendant_of(objs, tree["series"].id, tree["base"].id)

\* reset_staged leaving the staged snapshot as it was
reset_staged_skipped(internals, tree) == internals

\* commit -a: the staged snapshot becomes the tree just committed
reset_staged(internals, tree) == [internals EXCEPT !.staged = tree]

\* commit_status writing the snapshots after every commit, not only after -a
commit_status_writes(S, do_status, commit_all, msg, ident) ==
    LET n == shead_series_name(S.shead)
        r == read(S.shead, S.head, S.refs, S.objects)
        internals == r.internals
        shead_commit == S.refs[S.shead.target]
        shead_tree == IF shead_commit # None THEN S.objects[shead_commit].tree ELSE EmptyTree
        tree == IF commit_all THEN internals.working ELSE internals.staged
        changes == diff_tree_to_tree(shead_tree, tree) # {}
        p == parents_from_ids(S.objects, history_parent_ids(tree))
        parents == (IF shead_commit # None THEN <<shead_commit>> ELSE <<>>) \o p.parents
        c == commit_update_ref(S.shead, S.refs, S.objects, tree, parents)
        S2 == [S EXCEPT !.refs = c.refs, !.objects = c.objects]
    IN IF S.shead.kind = "absent" THEN End(S, "no_series")
       ELSE IF ~n.ok THEN End(S, "bad_shead")
       ELSE IF ~r.ok THEN End(S, "read_failed")
       ELSE IF do_status THEN End(S, "ok")
       ELSE IF ~changes THEN End(S, "CommitNoChanges")
       ELSE IF ~has(tree, "series") THEN End(S, "no_series_slot")
       ELSE IF base_not_ancestor(S.objects, tree) THEN End(S, "base_not_ancestor")
       ELSE IF msg = "" THEN End(S, "empty_message")
       ELSE IF ~ident THEN End(S, "no_signature")
       ELSE IF ~p.ok \/ ~c.ok THEN End(S, "commit_failed")
       ELSE EndWrite(S2, ident, reset_staged(internals, tree))

\* commit_status: commit (do_status false) and status (do_status true); msg is
\* the message after message_prettify
commit_status(S, do_status, commit_all, msg, ident) ==
    LET n == shead_series_name(S.shead)
        r == read(S.shead, S.head, S.refs, S.objects)
        internals == r.internals
        shead_commit == S.refs[S.shead.target]
        shead_tree == IF shead_commit # None THEN S.objects[shead_commit].tree ELSE EmptyTree
        tree == IF commit_all THEN internals.working ELSE internals.staged
        changes == diff_tree_to_tree(shead_tree, tree) # {}
        p == parents_from_ids(S.objects, history_parent_ids(tree))
        parents == (IF shead_commit # None THEN <<shead_commit>> ELSE <<>>) \o p.parents
        c == commit_update_ref(S.shead, S.refs, S.objects, tree, parents)
        S2 == [S EXCEPT !.refs = c.refs, !.objects = c.objects]
    IN IF S.shead.kind = "absent" THEN End(S, "no_series")
       ELSE IF ~n.ok THEN End(S, "bad_shead")
       ELSE IF ~r.ok THEN End(S, "read_failed")
       ELSE IF do_status THEN End(S, "ok")
       ELSE IF ~changes THEN End(S, "CommitNoChanges")
       ELSE IF ~has(tree, "series") THEN End(S, "no_series_slot")
       ELSE IF base_not_ancestor(S.objects, tree) THEN End(S, "base_not_ancestor")
       ELSE IF msg = "" THEN End(S, "empty_message")
       ELSE IF ~ident THEN End(S, "no_signature")
       ELSE IF ~p.ok \/ ~c.ok THEN End(S, "commit_failed")
       ELSE IF commit_all THEN EndWrite(S2, ident, reset_staged(internals, tree))
       ELSE End(S2, "ok")

\* the commits a revwalk visits after push(series) and hide(base)
revwalk_range(objs, series_id, base_id) ==
    (Ancestors(objs, series_id) \cup {series_id})
        \ (Ancestors(objs, base_id) \cup {base_id})

RECURSIVE topological_reverse(_, _)
\* SORT_TOPOLOGICAL | SORT_REVERSE: no commit before all of its parents that are
\* in the walk; among the commits that may come next the older one is taken
topological_reverse(objs, commits) ==
    IF commits = {} THEN <<>>
    ELSE LET ready == {c \in commits : Range(objs[c].parents) \cap commits = {}}
             c == CHOOSE c \in ready : \A d \in ready : c <= d
         IN <<c>> \o topological_reverse(objs, commits \ {c})

\* rebase_commits taking merge commits as any other commit
rebase_commits_with_merges(objs, series_id, base_id) ==
    [ok |-> TRUE,
     commits |-> topological_reverse(objs, revwalk_range(objs, series_id, base_id))]

\* the commits of the rebase, or the error of a merge commit among them
rebase_commits(objs, series_id, base_id) ==
    LET walk == topological_reverse(objs, revwalk_range(objs, series_id, base_id))
    IN IF \E i \in DOMAIN walk : Len(objs[walk[i]].parents) > 1
       THEN [ok |-> FALSE, commits |-> <<>>]
       ELSE [ok |-> TRUE, commits |-> walk]

\* the plan with the exec line written before the pick lines
git_rebase_todo_exec_first(commits, onto) ==
    (IF onto # None THEN <<[cmd |-> "exec", id |-> onto]>> ELSE <<>>)
    \o [i \in DOMAIN commits |-> [cmd |-> "pick", id |-> commits[i]]]

\* the lines written to git-rebase-todo: a pick per commit, then the exec that
\* sets the base when --onto is given
git_rebase_todo(commits, onto) ==
    [i \in DOMAIN commits |-> [cmd |-> "pick", id |-> commits[i]]]
    \o (IF onto # None THEN <<[cmd |-> "exec", id |-> onto]>> ELSE <<>>)

\* the state of the repository taken as clean whatever is in progress
rebase_state_unchecked(S) == "Clean"

\* what rebase makes of Repository::state: clean, a rebase of git series (the
\* marker file git-series is in rebase-merge), or another operation
rebase_state(S) ==
    IF S.rebase_merge = NoRebase THEN "Clean"
    ELSE IF S.rebase_merge.marker = "git-series" THEN "already_in_progress"
    ELSE "in_progress"

\* the message of unclean looking at the index only
unclean_index_only(index_differs, workdir_differs) ==
    IF index_differs THEN <<"Cannot rebase: you have unstaged changes.">> ELSE <<>>

\* the lines of the message unclean of rebase: index_differs tells that the diff
\* of the tree of the series commit to the index is not empty, workdir_differs
\* that the diff of the index to the working directory is not
unclean(index_differs, workdir_differs) ==
    LET first == IF index_differs
                 THEN <<"Cannot rebase: you have unstaged changes.">> ELSE <<>>
    IN IF ~workdir_differs THEN first
       ELSE IF first = <<>>
       THEN <<"Cannot rebase: your index contains uncommitted changes.">>
       ELSE first \o <<"Additionally, your index contains uncommitted changes.">>

\* the checks of rebase before it builds anything: the name of the error, or
\* "ok".  a.index_differs and a.workdir_differs are the two diffs checked
rebase_checked(S, a) ==
    LET r == read(S.shead, S.head, S.refs, S.objects)
        internals == r.internals
        series_id == internals.working["series"].id
        base_id == internals.working["base"].id
    IN IF rebase_state(S) # "Clean" THEN rebase_state(S)
       ELSE IF ~r.ok THEN "read_failed"
       ELSE IF ~has(internals.working, "series") THEN "no_series_slot"
       ELSE IF ~has(internals.working, "base") THEN "no_base"
       ELSE IF series_id = base_id THEN "no_patches"
       ELSE IF ~graph_descendant_of(S.objects, series_id, base_id)
            THEN "base_not_ancestor"
       ELSE IF unclean(a.index_differs, a.workdir_differs) # <<>> THEN "unclean"
       ELSE IF ~rebase_commits(S.objects, series_id, base_id).ok THEN "merge_commit"
       ELSE "ok"

\* the directory rebase builds: the marker, the new base, the original head and
\* the plan; onto is the commit --onto names or None
rebase_dir(S, onto) ==
    LET internals == read(S.shead, S.head, S.refs, S.objects).internals
        series_id == internals.working["series"].id
        base_id == internals.working["base"].id
    IN [marker |-> "git-series",
        onto |-> IF onto # None THEN onto ELSE base_id,
        orig_head |-> series_id,
        todo |-> git_rebase_todo(rebase_commits(S.objects, series_id, base_id).commits, onto),
        files |-> RebaseFiles]

\* git rebase --continue run to its end in S, where HEAD is the new base and
\* dir the directory: the picks leave HEAD at end_head (at the original head
\* when the base stays), the exec line sets the base and the directory is removed
rebase_continue(S, dir, onto, end_head, ident) ==
    LET S4 == [S EXCEPT !.head = IF onto = None THEN dir.orig_head ELSE end_head,
                        !.rebase_merge = NoRebase]
        exec == base(S4, "set", onto, ident)
    IN IF onto = None THEN End(S4, "ok")
       ELSE IF exec.result # "ok" THEN End([exec.st EXCEPT !.rebase_merge = dir], "rebase_failed")
       ELSE [exec EXCEPT !.result = "ok"]

\* rebase.  a.onto is the commit --onto names or None; a.interactive the -i flag
\* and a.todo_empty whether the editor left an empty plan; a.index_differs and
\* a.workdir_differs the two diffs checked; a.conflict whether checkout_tree
\* reports a conflict; a.status_ok whether git rebase --continue succeeds and
\* a.end_head the commit it then leaves HEAD at
rebase(S, a, ident) ==
    LET dir == rebase_dir(S, a.onto)
        S2 == [S EXCEPT !.rebase_merge = dir]
        S3 == [S2 EXCEPT !.head = dir.onto]
    IN IF rebase_checked(S, a) # "ok" THEN End(S, rebase_checked(S, a))
       ELSE IF a.interactive /\ a.todo_empty THEN End(S, "nothing_to_do")
       ELSE IF a.conflict THEN End(S2, "CheckoutConflict")
       ELSE IF ~a.status_ok THEN End(S3, "rebase_failed")
       ELSE rebase_continue(S3, dir, a.onto, a.end_head, ident)

\* Vec::sort of names: str::cmp orders them as NameOrder does
RECURSIVE sort(_, _)
sort(names, i) ==
    IF i > Len(NameOrder) THEN <<>>
    ELSE SelectSeq(names, LAMBDA n : n = NameOrder[i]) \o sort(names, i + 1)

\* Vec::dedup leaving the names as they are
dedup_skipped(names) == names

RECURSIVE dedup(_)
\* Vec::dedup: of consecutive equal names only the first is kept
dedup(names) ==
    IF Len(names) <= 1 THEN names
    ELSE IF names[1] = names[2] THEN dedup(Tail(names))
    ELSE <<names[1]>> \o dedup(Tail(names))

\* series (the listing printed without a subcommand): the names below the three
\* prefixes and the target of SHEAD, sorted and de-duplicated, one line per
\* name with the star of the current series and the "new" mark
series(S) ==
    LET n == shead_series_name(S.shead)
        glob(prefix) == SelectSeq(NameOrder, LAMBDA name : S.refs[<<prefix, name>>] # None)
        found == glob(SERIES_PREFIX) \o glob(STAGED_PREFIX) \o glob(WORKING_PREFIX)
        names == found \o (IF S.shead.kind = "absent" THEN <<>> ELSE <<n.name>>)
        sorted == dedup(sort(names, 1))
        line(name) == [name |-> name,
                       star |-> S.shead.kind # "absent" /\ name = n.name,
                       new |-> S.refs[<<SERIES_PREFIX, name>>] = None]
    IN IF S.shead.kind # "absent" /\ ~n.ok THEN [ok |-> FALSE, out |-> <<>>]
       ELSE [ok |-> TRUE, out |-> [i \in DOMAIN sorted |-> line(sorted[i])]]

\* main leaving with status 0 whatever git_series returned
main_exit_success(result) == [status |-> 0, stderr |-> FALSE]

\* main: the exit status of the process and whether the error is printed, from
\* what git_series returned
main(result) ==
    IF result = "ok" THEN [status |-> 0, stderr |-> FALSE]
    ELSE [status |-> 1, stderr |-> result \notin {"CommitNoChanges", "CheckoutConflict"}]

-----------------------------------------------------------------------------
(* One command after another *)

State == [Repo(objects, refs, shead, head) EXCEPT !.rebase_merge = rebase_merge]

NoLast == [op |-> "none", name |-> "", all |-> FALSE, result |-> ""]

\* the invocations that may run at the same time
Procs == {"A", "B"}

\* the two references Internals::write moves
SnapshotPrefixes == {STAGED_PREFIX, WORKING_PREFIX}

NoIds == [q \in SnapshotPrefixes |-> None]

\* an invocation that has not begun: pc is its position, internals the
\* snapshots it holds, series_name, prefix and old the locals of write and
\* maybe_commit; loaded_from (the series SHEAD named when it loaded), seen (the
\* ids of the references when it loaded), wrote (the commits it put on them)
\* and replaced (the ids they held before) record what it did
Idle == [pc |-> "idle", internals |-> NoInternals, series_name |-> "",
         prefix |-> STAGED_PREFIX, old |-> None, loaded_from |-> "",
         seen |-> NoIds, wrote |-> NoIds, replaced |-> NoIds]

NoInv == [p \in Procs |-> Idle]

Init ==
    /\ objects = UserObjects
    /\ refs = [p \in RefNames |-> None]
    /\ shead = NoShead
    /\ head = None
    /\ identity \in BOOLEAN
    /\ created = 0
    /\ last = NoLast
    /\ inv = NoInv
    /\ rebase_merge = NoRebase

\* The store after garbage collection: commits that no reference reaches are
\* dropped, and the commits kept are numbered in the order they were created.
\* Ids are opaque to the commands (they compare them and sort the ids of
\* project commits, which keep their numbers), so this changes no behaviour.
CollectedFrom(S, NU) ==
    LET roots == {S.refs[q] : q \in RefNames} \ {None}
        live == UNION {{c \in Ancestors(S.objects, r) \cup {r} : c > NU} : r \in roots}
        newid(i) == IF i <= NU THEN i ELSE NU + Cardinality({j \in live : j <= i})
        kept == SortedSeq(live)
        renumbered(c) == [tree |-> c.tree,
                          parents |-> [j \in DOMAIN c.parents |-> newid(c.parents[j])]]
    IN [S EXCEPT
           !.objects = [k \in 1..(NU + Len(kept)) |->
                           IF k <= NU THEN S.objects[k] ELSE renumbered(S.objects[kept[k - NU]])],
           !.refs = [q \in RefNames |-> newid(S.refs[q])]]

Collected(S) == CollectedFrom(S, Len(UserParents))

\* the step of a command that ends as o describes, in a repository whose project
\* has NU commits; last keeps the latest command that changed the repository
RunIn(NU, op, name, all, o) ==
    /\ created' = created + Len(o.st.objects) - Len(objects)
    /\ created' <= MaxNewObjects
    /\ objects' = CollectedFrom(o.st, NU).objects
    /\ refs' = CollectedFrom(o.st, NU).refs
    /\ shead' = o.st.shead
    /\ head' = o.st.head
    /\ last' = IF o.st = State THEN last
               ELSE [op |-> op, name |-> name, all |-> all, result |-> o.result]
    /\ rebase_merge' = o.st.rebase_merge
    /\ UNCHANGED <<identity, inv>>

Run(op, name, all, o) == RunIn(Len(UserParents), op, name, all, o)

\* the names given to add and unadd
NameSets == {{s} : s \in Slots} \cup {Slots}

\* the commit message after message_prettify
Messages == {"", "msg"}

\* the argument of base: nothing, -d, or a commit
BaseArgs == {[what |-> "get", id |-> None], [what |-> "delete", id |-> None]}
            \cup {[what |-> "set", id |-> c] : c \in UserCommits}

\* the argument of cover: -d, or the blob of the edited text (None when empty)
CoverArgs == {[delete |-> TRUE, text |-> None]}
             \cup {[delete |-> FALSE, text |-> t] : t \in Blobs \cup {None}}

\* what each command that ends in Internals::write may leave, over all arguments
Outcomes(S, ident) ==
    {start(S, name, ident) : name \in SeriesNames}
    \cup {add(S, files, ident) : files \in NameSets}
    \cup {unadd(S, files, ident) : files \in NameSets}
    \cup {base(S, a.what, a.id, ident) : a \in BaseArgs}
    \cup {cover(S, a.delete, a.text, ident) : a \in CoverArgs}
    \cup {commit_status(S, FALSE, TRUE, msg, ident) : msg \in Messages}

Start == \E name \in SeriesNames : Run("start", name, FALSE, start(State, name, identity))

Checkout == \E name \in SeriesNames, conflict \in BOOLEAN :
    Run("checkout", name, FALSE, checkout(State, name, conflict))

Add == \E files \in NameSets : Run("add", "", FALSE, add(State, files, identity))

Unadd == \E files \in NameSets : Run("unadd", "", FALSE, unadd(State, files, identity))

Base == \E a \in BaseArgs : Run("base", "", FALSE, base(State, a.what, a.id, identity))

Cover == \E a \in CoverArgs : Run("cover", "", FALSE, cover(State, a.delete, a.text, identity))

Commit == \E commit_all \in BOOLEAN, msg \in Messages :
    Run("commit", "", commit_all, commit_status(State, FALSE, commit_all, msg, identity))

Status == Run("status", "", FALSE, commit_status(State, TRUE, FALSE, "", identity))

Delete == \E name \in SeriesNames : Run("delete", name, FALSE, delete(State, name))

Detach == Run("detach", "", FALSE, detach(State))

List == Run("list", "", FALSE, End(State, IF series(State).ok THEN "ok" ELSE "bad_shead"))

\* the user moves HEAD to a commit of the project (git commit, git checkout)
MoveHead == \E c \in UserCommits : Run("head", "", FALSE, End([State EXCEPT !.head = c], "ok"))

Next ==
    \/ Start
    \/ Checkout
    \/ Add
    \/ Unadd
    \/ Base
    \/ Cover
    \/ Commit
    \/ Status
    \/ Delete
    \/ Detach
    \/ List
    \/ MoveHead

Spec == Init /\ [][Next]_vars

-----------------------------------------------------------------------------
(* Properties of the commands run one after another *)

\* the tree of the tip of a reference, EmptyTree when the reference is absent
TipTree(S, prefix, name) == maybe_get_ref(S.refs, S.objects, prefix, name)

\* the commits made by this program that a commit reaches, itself included
Created(objs, id) == {c \in Ancestors(objs, id) \cup {id} : c > Len(UserParents)}

\* a tree holding nothing but the entry "series" naming commit c
OnlySeries(c) == tb_insert(EmptyTree, "series", c, GIT_FILEMODE_COMMIT)

\* C3: for every staged and working reference that exists, each commit-kind
\* entry of the tree of its tip commit is a parent of that tip commit, also
\* after a write that skipped a snapshot because its tree was unchanged.
C3_GcSafety ==
    \A name \in SeriesNames, prefix \in {STAGED_PREFIX, WORKING_PREFIX} :
        LET tip == refs[<<prefix, name>>]
        IN tip # None =>
            \A s \in Slots :
                kind(objects[tip].tree[s]) = "commit" =>
                    \E i \in DOMAIN objects[tip].parents :
                        objects[tip].parents[i] = objects[tip].tree[s].id

\* an add has left a working snapshot with a series and a base entry behind,
\* which that add's write skipped
C3_Witness ==
    /\ last.op = "add" /\ last.result = "ok"
    /\ \E name \in SeriesNames :
          /\ shead = Symbolic(SERIES_PREFIX, name)
          /\ refs[<<WORKING_PREFIX, name>>] # None
          /\ has(TipTree(State, WORKING_PREFIX, name), "base")
          /\ has(TipTree(State, WORKING_PREFIX, name), "series")
          /\ has(TipTree(State, STAGED_PREFIX, name), "base")

\* C4: every commit on a published-history reference has a tree whose base is
\* absent, equal to its series, or an ancestor of its series.
C4_HistoryBaseIsAncestor ==
    \A name \in SeriesNames :
        LET tip == refs[<<SERIES_PREFIX, name>>]
        IN tip # None =>
            \A c \in Created(objects, tip) :
                LET t == objects[c].tree
                IN has(t, "base") =>
                    /\ has(t, "series")
                    /\ \/ t["base"].id = t["series"].id
                       \/ graph_descendant_of(objects, t["series"].id, t["base"].id)

\* a history commit with a base that is a proper ancestor of its series exists,
\* while the working snapshot of the series holds a base that is no ancestor
C4_Witness ==
    \E name \in SeriesNames :
        LET tip == refs[<<SERIES_PREFIX, name>>]
        IN /\ tip # None
           /\ has(objects[tip].tree, "base")
           /\ objects[tip].tree["base"].id # objects[tip].tree["series"].id
           /\ shead = Symbolic(SERIES_PREFIX, name)
           /\ read(shead, head, refs, objects).ok
           /\ base_not_ancestor(objects, read(shead, head, refs, objects).internals.working)

\* the tree commit would choose in state S
ChosenTree(S, commit_all) ==
    LET r == read(S.shead, S.head, S.refs, S.objects)
    IN IF commit_all THEN r.internals.working ELSE r.internals.staged

C5_WitnessNoSeries ==
    commit_status(State, FALSE, FALSE, "msg", identity).result = "no_series_slot"

\* C6: a second Internals::write of the same snapshots right after a
\* successful one creates no commit and moves no reference.
C6_WriteIdempotent ==
    \A o \in Outcomes(State, identity) :
        o.wrote =>
            LET w == write(o.st.shead, o.st.refs, o.st.objects, identity, o.written)
            IN w.ok /\ w.refs = o.st.refs /\ w.objects = o.st.objects

\* a command whose write creates a commit for the staged and for the working
\* snapshot can run
C6_Witness ==
    \E o \in Outcomes(State, identity) :
        /\ o.wrote
        /\ Len(o.st.objects) = Len(objects) + 2
        /\ o.st.shead = shead

\* C7: after a successful Internals::write, a fresh read_series of the series
\* yields the staged and working mappings that were written.
C7_WriteReadRoundTrip ==
    \A o \in Outcomes(State, identity) :
        o.wrote =>
            read_series(o.st.refs, o.st.objects, current_series(o.st.shead).name) = o.written

\* a command can write snapshots that both differ from what is stored, the
\* working one holding a series, a base and a cover
C7_Witness ==
    \E o \in Outcomes(State, identity) :
        /\ o.wrote
        /\ o.st.shead = shead
        /\ o.written.staged # TipTree(State, STAGED_PREFIX, shead.target[2])
        /\ o.written.working # TipTree(State, WORKING_PREFIX, shead.target[2])
        /\ \A s \in Slots : has(o.written.working, s)

\* C8: right after a successful commit, a commit in the same mode (HEAD not
\* moved, nothing added) ends as CommitNoChanges and creates no commit.
C8_SecondCommitNothingToCommit ==
    \A commit_all \in BOOLEAN, msg1 \in Messages, msg2 \in Messages :
        LET o1 == commit_status(State, FALSE, commit_all, msg1, identity)
            o2 == commit_status(o1.st, FALSE, commit_all, msg2, identity)
        IN o1.result = "ok" =>
            o2.result = "CommitNoChanges" /\ o2.st = o1.st

\* a commit of the staged snapshot has just succeeded while the working
\* snapshot holds more, and the same commit again finds nothing to commit
C8_Witness ==
    /\ last.op = "commit" /\ ~last.all /\ last.result = "ok"
    /\ refs[shead.target] # None
    /\ ChosenTree(State, FALSE) # ChosenTree(State, TRUE)
    /\ commit_status(State, FALSE, FALSE, "msg", identity).result = "CommitNoChanges"

\* C9: after a successful commit -a the staged snapshot, the working snapshot
\* and the tree of the new history tip are the same tree.
C9_CommitAllConverges ==
    \A msg \in Messages :
        LET o == commit_status(State, FALSE, TRUE, msg, identity)
            name == current_series(o.st.shead).name
            tip == o.st.refs[<<SERIES_PREFIX, name>>]
        IN o.result = "ok" =>
            /\ tip # None /\ tip \notin DOMAIN objects
            /\ o.st.refs[<<STAGED_PREFIX, name>>] # None
            /\ o.st.refs[<<WORKING_PREFIX, name>>] # None
            /\ TipTree(o.st, STAGED_PREFIX, name) = o.st.objects[tip].tree
            /\ TipTree(o.st, WORKING_PREFIX, name) = o.st.objects[tip].tree

\* a commit -a has just succeeded, and staged and working differed before it
C9_Witness ==
    /\ last.op = "commit" /\ last.all /\ last.result = "ok"
    /\ \E name \in SeriesNames :
          /\ shead = Symbolic(SERIES_PREFIX, name)
          /\ refs[<<SERIES_PREFIX, name>>] # None
          /\ has(TipTree(State, STAGED_PREFIX, name), "base")
          /\ TipTree(State, STAGED_PREFIX, name) = TipTree(State, WORKING_PREFIX, name)

\* no series yet: no reference of any series, and no SHEAD
NoPriorSeries(S) == S.shead = NoShead /\ \A q \in RefNames : S.refs[q] = None

\* what start(x) leaves apart from the staged snapshot: SHEAD at x, the
\* working snapshot holding only series = HEAD, x listed as current and new
StartedFresh(S, o, x) ==
    /\ o.st.shead = Symbolic(SERIES_PREFIX, x)
    /\ o.st.refs[<<STAGED_PREFIX, x>>] # None
    /\ o.st.refs[<<WORKING_PREFIX, x>>] # None
    /\ TipTree(o.st, WORKING_PREFIX, x) = OnlySeries(S.head)
    /\ series(o.st) = [ok |-> TRUE, out |-> <<[name |-> x, star |-> TRUE, new |-> TRUE]>>]

\* C10 as stated: start(x) on a repository without series leaves SHEAD at x,
\* the staged and the working snapshot both holding only series = HEAD, and
\* list reporting x as the current series, new and without commits.
C10_StartStagedHasSeries ==
    \A x \in SeriesNames :
        LET o == start(State, x, identity)
        IN (NoPriorSeries(State) /\ o.result = "ok") =>
            /\ StartedFresh(State, o, x)
            /\ TipTree(o.st, STAGED_PREFIX, x) = OnlySeries(head)

\* C10 amended: as above, but the staged snapshot is empty; only the working
\* snapshot holds series = HEAD.
C10_StartFresh ==
    \A x \in SeriesNames :
        LET o == start(State, x, identity)
        IN (NoPriorSeries(State) /\ o.result = "ok") =>
            /\ StartedFresh(State, o, x)
            /\ TipTree(o.st, STAGED_PREFIX, x) = EmptyTree

\* start has just succeeded on a repository that holds this one series only
C10_Witness ==
    /\ last.op = "start" /\ last.result = "ok"
    /\ created = 2
    /\ \A q \in RefNames : refs[q] # None => q[2] = last.name

\* what Internals::read gives in the current state
Loaded == read(shead, head, refs, objects)

\* C11: base <commit> with a commit that is neither the working series commit
\* nor one of its ancestors ends in the ancestry error and leaves the repository
\* as it was; a read afterwards shows the base (or its absence) of before.
C11_BaseRejectsNonAncestor ==
    \A c \in UserCommits :
        LET series_id == Loaded.internals.working["series"].id
            o == base(State, "set", c, identity)
        IN (Loaded.ok /\ c # series_id /\ c \notin Ancestors(objects, series_id))
           => /\ o.result = "not_an_ancestor"
              /\ o.st = State
              /\ read(o.st.shead, o.st.head, o.st.refs, o.st.objects).internals.working["base"]
                     = Loaded.internals.working["base"]

\* a base is set and a commit that is no ancestor of the series is at hand
C11_Witness ==
    /\ Loaded.ok
    /\ has(Loaded.internals.working, "base")
    /\ \E c \in UserCommits :
           /\ c # head /\ c \notin Ancestors(objects, head)
           /\ base(State, "set", c, identity).result = "not_an_ancestor"

\* the arguments and the surroundings of a rebase, over the commits given
\* (an editor runs only with -i, the sequencer only after a checkout without
\* conflict, and it picks onto a commit only when --onto is given)
RebaseArgs(commits) ==
    {a \in [onto : commits \cup {None}, interactive : BOOLEAN, todo_empty : BOOLEAN,
            index_differs : BOOLEAN, workdir_differs : BOOLEAN, conflict : BOOLEAN,
            status_ok : BOOLEAN, end_head : commits \cup {None}] :
        /\ a.todo_empty => a.interactive
        /\ a.status_ok => ~a.conflict
        /\ a.end_head # None <=> (a.onto # None /\ a.status_ok)}

\* what the commands built on Internals::read leave when they write
ReadWriteOutcomes(S, ident) ==
    {add(S, files, ident) : files \in NameSets}
    \cup {unadd(S, files, ident) : files \in NameSets}
    \cup {base(S, a.what, a.id, ident) : a \in BaseArgs}
    \cup {cover(S, a.delete, a.text, ident) : a \in CoverArgs}
    \cup {commit_status(S, FALSE, TRUE, msg, ident) : msg \in Messages}

\* the commands built on Internals::read work on a working snapshot whose series
\* slot is the current HEAD: what they write has it, and a rebase records it as
\* the original head
ReadCopiesHead ==
    /\ Loaded.ok => Loaded.internals.working["series"] = [id |-> head, mode |-> GIT_FILEMODE_COMMIT]
    /\ \A o \in ReadWriteOutcomes(State, identity) :
           o.wrote => o.written.working["series"] = [id |-> head, mode |-> GIT_FILEMODE_COMMIT]
    /\ \A a \in RebaseArgs(UserCommits) :
           LET o == rebase(State, a, identity)
           IN o.st.rebase_merge # NoRebase => o.st.rebase_merge.orig_head = head

\* C13 as stated: every operation that reads the working snapshot sees its series
\* slot equal to HEAD; checkout too, so that checking a series out, the current
\* one included, would find HEAD in the slot and leave HEAD where it is.
C13_EveryReaderSeesHead ==
    /\ ReadCopiesHead
    /\ \A name \in SeriesNames :
           LET o == checkout(State, name, FALSE)
           IN o.result = "ok" => o.st.head = head

\* C13, amended: add, unadd, base, cover, commit, status and rebase see the series
\* slot equal to HEAD; checkout reads the working snapshot as it is stored and
\* moves HEAD to the commit in its series slot.
C13_ReadersButCheckoutSeeHead ==
    /\ ReadCopiesHead
    /\ \A name \in SeriesNames :
           LET o == checkout(State, name, FALSE)
           IN o.result = "ok"
              => o.st.head = TipTree(State, WORKING_PREFIX, name)["series"].id

\* HEAD has moved since the working snapshot of the current series was stored;
\* a command writes, and checkout of the current series moves HEAD back
C13_Witness ==
    /\ Loaded.ok
    /\ TipTree(State, WORKING_PREFIX, current_series(shead).name)["series"].id # head
    /\ \E o \in ReadWriteOutcomes(State, identity) : o.wrote /\ o.st # State
    /\ LET o == checkout(State, current_series(shead).name, FALSE)
       IN o.result = "ok" /\ o.st.head # head

\* SHEAD as the commands never leave it but git can: absent, a direct
\* reference, a symbolic reference to a branch outside SERIES_PREFIX
DirectShead == [kind |-> "direct", target |-> <<"", "">>]

UnusableSheads == {NoShead, DirectShead} \cup {Symbolic("refs/heads/", name) : name \in SeriesNames}

\* what add, unadd, base, cover and rebase leave, over their arguments
ReadOutcomes(S, ident) ==
    {add(S, files, ident) : files \in NameSets}
    \cup {unadd(S, files, ident) : files \in NameSets}
    \cup {base(S, a.what, a.id, ident) : a \in BaseArgs}
    \cup {cover(S, a.delete, a.text, ident) : a \in CoverArgs}
    \cup {rebase(S, a, ident) : a \in RebaseArgs(UserCommits)}

\* C14: while SHEAD is absent, direct, or symbolic with a target outside
\* SERIES_PREFIX, Internals::read fails, and add, unadd, base, cover and rebase
\* fail and leave every reference (and the rest of the repository) as it was.
C14_UnusableSheadFailsRead ==
    \A sh \in UnusableSheads :
        LET S == [State EXCEPT !.shead = sh]
        IN /\ ~read(S.shead, S.head, S.refs, S.objects).ok
           /\ \A o \in ReadOutcomes(S, identity) : o.result # "ok" /\ o.st = S

\* a series with snapshots exists, HEAD is at a commit, and SHEAD is absent:
\* add fails on the read
C14_Witness ==
    /\ shead = NoShead
    /\ head # None
    /\ \E name \in SeriesNames : exists(refs, name)
    /\ add(State, Slots, identity).result = "read_failed"

\* C15: SHEAD is absent or a symbolic reference to a name below SERIES_PREFIX in
\* every state the commands reach; a commit that succeeds leaves SHEAD as it is
\* and moves the history reference SHEAD names to a new commit on top of the
\* old tip.
C15_SheadSymbolicInNamespace ==
    /\ \/ shead = NoShead
       \/ /\ shead.kind = "symbolic"
          /\ shead.target[1] = SERIES_PREFIX
          /\ shead.target[2] \in SeriesNames
    /\ \A commit_all \in BOOLEAN, msg \in Messages :
           LET o == commit_status(State, FALSE, commit_all, msg, identity)
               old == refs[shead.target]
               new == o.st.refs[shead.target]
           IN (o.result = "ok" /\ shead # NoShead)
              => /\ o.st.shead = shead
                 /\ new # None /\ new # old
                 /\ old # None => o.st.objects[new].parents[1] = old
                 /\ \A q \in RefNames : q[1] = SERIES_PREFIX /\ q # shead.target
                        => o.st.refs[q] = refs[q]

\* a series has a history commit and a further commit on top of it succeeds
C15_Witness ==
    /\ shead # NoShead
    /\ refs[shead.target] # None
    /\ \E commit_all \in BOOLEAN :
           commit_status(State, FALSE, commit_all, "msg", identity).result = "ok"

\* the references with those of name kept only below the prefixes in keep, as
\* git update-ref -d, or a fetch of the history branch alone, leaves them
OnlyBelow(rf, name, keep) ==
    [q \in RefNames |-> IF q[2] = name /\ q[1] \notin keep THEN None ELSE rf[q]]

\* C16: start(name) ends in the error that the series exists already, with the
\* repository unchanged, exactly when one of the history, staged and working
\* references of name exists; Internals::exists(name) holds exactly when the
\* staged or the working reference of name exists.
C16_StartRejectsExisting ==
    \A name \in SeriesNames, keep \in SUBSET Prefixes :
        LET S == [State EXCEPT !.refs = OnlyBelow(refs, name, keep)]
            present(prefix) == S.refs[<<prefix, name>>] # None
            o == start(S, name, identity)
        IN /\ o.result = "already_exists" <=> \E prefix \in Prefixes : present(prefix)
           /\ o.result = "already_exists" => o.st = S
           /\ exists(S.refs, name) <=> (present(STAGED_PREFIX) \/ present(WORKING_PREFIX))

\* a series has all three references, and start of its name is rejected
C16_Witness ==
    \E name \in SeriesNames :
        /\ \A prefix \in Prefixes : refs[<<prefix, name>>] # None
        /\ start(State, name, identity).result = "already_exists"

\* the names list() prints
Listed(S) == {series(S).out[i].name : i \in DOMAIN series(S).out}

\* C17 as stated: a delete that succeeds removes the staged and the working
\* reference of the series and leaves its history reference, so that list()
\* still prints a series that had one.
C17_DeleteKeepsHistory ==
    \A name \in SeriesNames :
        LET o == delete(State, name)
        IN o.result = "ok"
           => /\ o.st.refs[<<STAGED_PREFIX, name>>] = None
              /\ o.st.refs[<<WORKING_PREFIX, name>>] = None
              /\ o.st.refs[<<SERIES_PREFIX, name>>] = refs[<<SERIES_PREFIX, name>>]
              /\ refs[<<SERIES_PREFIX, name>>] # None => name \in Listed(o.st)

\* C17, amended: a delete that succeeds removes the history, the staged and the
\* working reference of the series and nothing else, and list() no longer
\* prints the series.
C17_DeleteRemovesAllThree ==
    \A name \in SeriesNames :
        LET o == delete(State, name)
        IN o.result = "ok"
           => /\ \A prefix \in Prefixes : o.st.refs[<<prefix, name>>] = None
              /\ \A q \in RefNames : q[2] # name => o.st.refs[q] = refs[q]
              /\ o.st.shead = shead /\ o.st.head = head
              /\ series(o.st).ok /\ name \notin Listed(o.st)

\* a series that is not the current one has all three references and is deleted
C17_Witness ==
    \E name \in SeriesNames :
        /\ \A prefix \in Prefixes : refs[<<prefix, name>>] # None
        /\ name \in Listed(State)
        /\ delete(State, name).result = "ok"

\* SHEAD names the series
IsCurrent(S, name) == S.shead # NoShead /\ S.shead.target = <<SERIES_PREFIX, name>>

\* C18: delete(name) ends in the error 'nothing to delete' exactly when no
\* reference of the series existed, and does not delete the series SHEAD names;
\* a delete that fails removes nothing, and after one that succeeds
\* Internals::exists(name) is false.
C18_NothingToDeleteIffNoReference ==
    \A name \in SeriesNames :
        LET none == \A prefix \in Prefixes : refs[<<prefix, name>>] = None
            o == delete(State, name)
        IN /\ o.result = "nothing_to_delete" <=> none
           /\ IsCurrent(State, name) => o.result # "ok"
           /\ o.result # "ok" => o.st = State
           /\ o.result = "ok" => ~exists(o.st.refs, name)

\* what list() prints in the current state
Lines == series(State).out

\* every series with a reference, and the one SHEAD names, has exactly one line;
\* the line says "new" exactly when the series has no history reference and
\* has the star exactly when SHEAD names the series
ListMarks ==
    series(State).ok
    => /\ \A name \in SeriesNames :
              Cardinality({i \in DOMAIN Lines : Lines[i].name = name})
                  = IF IsCurrent(State, name) \/ \E prefix \in Prefixes : refs[<<prefix, name>>] # None
                    THEN 1 ELSE 0
       /\ \A i \in DOMAIN Lines :
              /\ Lines[i].new <=> refs[<<SERIES_PREFIX, Lines[i].name>>] = None
              /\ Lines[i].star <=> IsCurrent(State, Lines[i].name)

\* a series stops being new only by a commit that succeeds, and while it stays
\* listed it does not become new again
NewUntilCommit ==
    \A name \in SeriesNames :
        LET history == refs[<<SERIES_PREFIX, name>>]
            history_after == refs'[<<SERIES_PREFIX, name>>]
        IN /\ (history = None /\ history_after # None)
                  => (last'.op = "commit" /\ last'.result = "ok" /\ IsCurrent(State, name))
           /\ (history # None /\ history_after = None)
                  => \A prefix \in Prefixes : refs'[<<prefix, name>>] = None

\* C19: list() marks a series "new, no commits yet" exactly when it has no
\* history reference, from its start until its first commit that succeeds and
\* not afterwards; it marks the series SHEAD names, and only that one, as
\* current; and it prints each name once.
C19_ListNewAndCurrent == []ListMarks /\ [][NewUntilCommit]_vars

\* two series are listed, one current and with a history, the other new, and
\* the current one has references in all three namespaces
C19_Witness ==
    /\ Len(Lines) = 2
    /\ \E i, j \in DOMAIN Lines :
           /\ Lines[i].star /\ ~Lines[i].new
           /\ ~Lines[j].star /\ Lines[j].new
           /\ \A prefix \in Prefixes : refs[<<prefix, Lines[i].name>>] # None

-----------------------------------------------------------------------------
(* Invocations running at the same time.  Each runs one command that loads   *)
(* the snapshots, changes them in memory and calls Internals::write; every   *)
(* access to a reference is a step of its own.                               *)

\* the series is started and HEAD is at a commit of the project
ConcInit ==
    \E h \in UserCommits :
        LET o == start(Repo(UserObjects, [q \in RefNames |-> None], NoShead, h), "x", TRUE)
        IN /\ objects = o.st.objects
           /\ refs = o.st.refs
           /\ shead = o.st.shead
           /\ head = h
           /\ identity = TRUE
           /\ created = Len(o.st.objects) - Len(UserObjects)
           /\ last = NoLast
           /\ inv = NoInv
           /\ rebase_merge = NoRebase

\* the commands that load, change and write the snapshots, over their arguments
Invocations(S) ==
    {add(S, files, TRUE) : files \in NameSets}
    \cup {unadd(S, files, TRUE) : files \in NameSets}
    \cup {base(S, a.what, a.id, TRUE) : a \in BaseArgs}
    \cup {cover(S, a.delete, a.text, TRUE) : a \in CoverArgs}

\* the snapshot the invocation is writing
tb(i) == IF i.prefix = STAGED_PREFIX THEN i.internals.staged ELSE i.internals.working

\* maybe_commit returned Ok: write goes on to the working snapshot, or returns
Returned(i) ==
    IF i.prefix = STAGED_PREFIX
    THEN [i EXCEPT !.pc = "lookup", !.prefix = WORKING_PREFIX]
    ELSE [i EXCEPT !.pc = "done"]

\* the user moves HEAD while invocations run
HeadMoves ==
    /\ \E c \in UserCommits \ {head} : head' = c
    /\ UNCHANGED <<objects, refs, shead, identity, created, last, inv, rebase_merge>>

\* Internals::read and the change the command makes in memory: the invocation
\* holds the snapshots the command hands to write
Load(p) ==
    /\ inv[p].pc = "idle"
    /\ \E o \in Invocations(State) :
           /\ o.wrote
           /\ inv' = [inv EXCEPT ![p] = [@ EXCEPT
                  !.pc = "loaded",
                  !.internals = o.written,
                  !.loaded_from = current_series(shead).name,
                  !.seen = [q \in SnapshotPrefixes |->
                               refs[<<q, current_series(shead).name>>]]]]
    /\ UNCHANGED <<objects, refs, shead, head, identity, created, last, rebase_merge>>

\* write up to the closure: the signatures and the series SHEAD names
WriteBegin(p) ==
    /\ inv[p].pc = "loaded"
    /\ LET n == current_series(shead)
       IN inv' = [inv EXCEPT ![p] =
              IF identity /\ n.ok
              THEN [@ EXCEPT !.pc = "lookup", !.series_name = n.name,
                             !.prefix = STAGED_PREFIX]
              ELSE [@ EXCEPT !.pc = "failed"]]
    /\ UNCHANGED <<objects, refs, shead, head, identity, created, last, rebase_merge>>

\* maybe_commit, first half: old_commit_id is read now, and nothing is
\* written when the tip has the tree already
Lookup(p) ==
    /\ inv[p].pc = "lookup"
    /\ LET i == inv[p]
           old == old_commit_id(refs, i.prefix, i.series_name)
       IN inv' = [inv EXCEPT ![p] =
              IF tree_unchanged(objects, old, tb(i))
              THEN Returned(i)
              ELSE [i EXCEPT !.pc = "store", !.old = old]]
    /\ UNCHANGED <<objects, refs, shead, head, identity, created, last, rebase_merge>>

\* maybe_commit, second half: the commit is created and the reference moved
\* if it still holds old_commit_id
Store(p) ==
    /\ inv[p].pc = "store"
    /\ LET i == inv[p]
           r == store_commit(refs, objects, i.prefix, i.series_name, tb(i), i.old)
       IN /\ created' = created + Len(r.objects) - Len(objects)
          /\ created' <= MaxNewObjects
          /\ objects' = r.objects
          /\ refs' = r.refs
          /\ inv' = [inv EXCEPT ![p] =
                 IF r.ok
                 THEN Returned([i EXCEPT
                          !.wrote[i.prefix] = Len(r.objects),
                          !.replaced[i.prefix] = refs[<<i.prefix, i.series_name>>]])
                 ELSE [i EXCEPT !.pc = "failed"]]
    /\ UNCHANGED <<shead, head, identity, last, rebase_merge>>

ConcNext ==
    \/ HeadMoves
    \/ \E p \in Procs : Load(p)
    \/ \E p \in Procs : WriteBegin(p)
    \/ \E p \in Procs : Lookup(p)
    \/ \E p \in Procs : Store(p)

ConcSpec == ConcInit /\ [][ConcNext]_vars

-----------------------------------------------------------------------------
(* Properties of invocations running at the same time *)

\* C1: when two invocations loaded the snapshots while a snapshot reference
\* pointed at the same commit and one of them has completed its write and
\* moved the reference, the write of the other does not replace the commit
\* the first one put there.
C1_LostUpdateDetected ==
    \A p \in Procs, q \in Procs, prefix \in SnapshotPrefixes :
        (/\ p # q
         /\ inv[p].seen[prefix] # None
         /\ inv[p].seen[prefix] = inv[q].seen[prefix]
         /\ inv[q].pc = "done"
         /\ inv[q].wrote[prefix] # None)
        => inv[p].replaced[prefix] # inv[q].wrote[prefix]

\* C2: a write that returned an error has moved neither reference; in
\* particular no write has moved the staged reference and then failed on
\* the working one.
C2_WriteAllOrNothing ==
    \A p \in Procs : inv[p].pc = "failed" => inv[p].wrote = NoIds

-----------------------------------------------------------------------------
(* Rebasing a series.  The project has a line of commits and a merge:        *)
(* 1 is the root, 2 its child and 3 the child of 2; 4 is another child of 1, *)
(* and 5 merges 3 and 4.                                                     *)

RebaseParents == << <<>>, <<1>>, <<2>>, <<1>>, <<3, 4>> >>

RebaseCommits == 1..Len(RebaseParents)

RebaseObjects == [i \in RebaseCommits |-> [tree |-> EmptyTree, parents |-> RebaseParents[i]]]

\* the commits --onto names
OntoCommits == {1, 4}

\* the series x is started with HEAD at a commit of the project
RebaseInit ==
    \E h \in RebaseCommits :
        LET o == start(Repo(RebaseObjects, [q \in RefNames |-> None], NoShead, h), "x", TRUE)
        IN /\ objects = o.st.objects
           /\ refs = o.st.refs
           /\ shead = o.st.shead
           /\ head = h
           /\ identity = TRUE
           /\ created = Len(o.st.objects) - Len(RebaseObjects)
           /\ last = NoLast
           /\ inv = NoInv
           /\ rebase_merge = NoRebase

RunRebase(op, o) == RunIn(Len(RebaseParents), op, "", FALSE, o)

\* the user moves HEAD to a commit of the project
RebaseMoveHead ==
    \E c \in RebaseCommits \ {head} : RunRebase("head", End([State EXCEPT !.head = c], "ok"))

RebaseBase ==
    \E c \in RebaseCommits : RunRebase("base", base(State, "set", c, identity))

Rebase ==
    \E a \in RebaseArgs(OntoCommits) : RunRebase("rebase", rebase(State, a, identity))

\* commit -a with a message
RebaseCommit ==
    RunIn(Len(RebaseParents), "commit", "", TRUE,
          commit_status(State, FALSE, TRUE, "msg", identity))

\* git itself begins an operation that leaves the repository not clean
GitOperationBegins ==
    /\ rebase_merge = NoRebase
    /\ RunRebase("git", End([State EXCEPT !.rebase_merge = ForeignRebase], "ok"))

\* the operation in progress ends (git rebase --continue, --abort, git merge
\* --abort): the directory is removed
GitOperationEnds ==
    /\ rebase_merge # NoRebase
    /\ RunRebase("git", End([State EXCEPT !.rebase_merge = NoRebase], "ok"))

RebaseNext ==
    \/ RebaseCommit
    \/ RebaseMoveHead
    \/ RebaseBase
    \/ Rebase
    \/ GitOperationBegins
    \/ GitOperationEnds

RebaseSpec == RebaseInit /\ [][RebaseNext]_vars

-----------------------------------------------------------------------------
(* Properties of rebase *)

\* the commits that c descends from, by the parents recorded in the store
RECURSIVE ReachableFrom(_)
ReachableFrom(c) ==
    {c} \cup UNION {ReachableFrom(objects[c].parents[i]) : i \in DOMAIN objects[c].parents}

\* the commits of the range base..series of the working snapshot
WorkingRange ==
    ReachableFrom(Loaded.internals.working["series"].id)
        \ ReachableFrom(Loaded.internals.working["base"].id)

\* rebase gets as far as walking the range: the repository is clean, the series
\* has a base that is a proper ancestor of HEAD, and nothing is uncommitted
WalksRange(a) ==
    /\ rebase_merge = NoRebase
    /\ Loaded.ok
    /\ has(Loaded.internals.working, "base")
    /\ WorkingRange # {}
    /\ Loaded.internals.working["base"].id \in ReachableFrom(head) \ {head}
    /\ ~a.index_differs /\ ~a.workdir_differs

\* the pick lines of a plan
Picks(todo) == SelectSeq(todo, LAMBDA l : l.cmd = "pick")

\* C20: when no commit of the range base..series is a merge, the plan has one
\* pick line for each commit of the range and no other, every commit after its
\* parents; when a commit of the range has more than one parent, rebase fails
\* and creates no sequencing state.
C20_PlanPicksRange ==
    \A a \in RebaseArgs(OntoCommits) :
        LET o == rebase(State, a, identity)
            picks == Picks(o.st.rebase_merge.todo)
            merges == {c \in WorkingRange : Len(objects[c].parents) > 1}
        IN WalksRange(a)
           => /\ merges # {} => (o.result = "merge_commit" /\ o.st = State)
              /\ (merges = {} /\ ~(a.interactive /\ a.todo_empty))
                     => /\ o.result # "merge_commit"
                        /\ o.st.rebase_merge # NoRebase
                               => /\ Len(picks) = Cardinality(WorkingRange)
                                  /\ {picks[i].id : i \in DOMAIN picks} = WorkingRange
                                  /\ \A i, j \in DOMAIN picks :
                                         i < j => picks[j].id \notin ReachableFrom(picks[i].id)

\* a range of two commits: the plan of a rebase stopped by a conflict picks
\* the parent, then the child
C20_Witness ==
    /\ has(Loaded.internals.working, "base")
    /\ Cardinality(WorkingRange) = 2
    /\ \E a \in RebaseArgs(OntoCommits) :
           /\ WalksRange(a)
           /\ rebase(State, a, identity).result = "CheckoutConflict"
           /\ Len(Picks(rebase(State, a, identity).st.rebase_merge.todo)) = 2

\* a merge commit is in the range and rebase fails on it
C20_WitnessMerge ==
    \E a \in RebaseArgs(OntoCommits) :
        WalksRange(a) /\ rebase(State, a, identity).result = "merge_commit"

\* how a command ends when what the user gave it is wrong: a series that does
\* not exist or exists already, nothing to commit, an empty message or cover
\* letter, a base that is no ancestor, a merge commit in the range
UserInputErrors ==
    {"does_not_exist", "already_exists", "CommitNoChanges", "empty_message",
     "empty_cover", "not_an_ancestor", "base_not_ancestor", "merge_commit"}

\* what the commands leave, over their arguments
CommandOutcomes(S, ident) ==
    {checkout(S, name, conflict) : name \in SeriesNames, conflict \in BOOLEAN}
    \cup {start(S, name, ident) : name \in SeriesNames}
    \cup {commit_status(S, FALSE, commit_all, msg, ident) :
              commit_all \in BOOLEAN, msg \in Messages}
    \cup {cover(S, a.delete, a.text, ident) : a \in CoverArgs}
    \cup {base(S, "set", c, ident) : c \in RebaseCommits}
    \cup {rebase(S, a, ident) : a \in RebaseArgs(OntoCommits)}

\* C12: a command that ends in an error of the user's input (checkout of a
\* series that does not exist, start of one that exists, nothing to commit, an
\* empty commit message or cover letter, a base that is no ancestor, a merge
\* commit in the range of a rebase) leaves SHEAD, HEAD and every history,
\* staged and working reference as they were.
C12_UserErrorChangesNothing ==
    \A o \in CommandOutcomes(State, identity) :
        o.result \in UserInputErrors
        => /\ o.st.shead = shead
           /\ o.st.head = head
           /\ o.st.refs = refs

\* the series has a history and a merge in its range: checkout, start, commit,
\* cover and rebase each end in an error of the user's input
C12_Witness ==
    /\ refs[<<SERIES_PREFIX, "x">>] # None
    /\ {"does_not_exist", "already_exists", "CommitNoChanges",
        "empty_message", "empty_cover", "merge_commit"}
           \subseteq {o.result : o \in CommandOutcomes(State, identity)}

\* the base is no ancestor of HEAD any more: commit and base end in the errors
\* of ancestry
C12_WitnessAncestry ==
    {"not_an_ancestor", "base_not_ancestor"}
        \subseteq {o.result : o \in CommandOutcomes(State, identity)}

\* the rebases that leave their plan to be read: run without -i from a clean
\* repository, stopped by a conflict of the checkout or by the sequencer
PlansLeft ==
    {a \in RebaseArgs(OntoCommits) :
        /\ ~a.interactive
        /\ rebase_merge = NoRebase
        /\ rebase(State, a, identity).st.rebase_merge # NoRebase}

\* the positions of the exec lines of a plan
Execs(todo) == {i \in DOMAIN todo : todo[i].cmd = "exec"}

C22_WitnessForeign ==
    /\ rebase_merge = ForeignRebase
    /\ \E a \in RebaseArgs(OntoCommits) : rebase(State, a, identity).result = "in_progress"

\* the base is no ancestor of the series
C22_WitnessAncestry ==
    /\ rebase_merge = NoRebase
    /\ \E a \in RebaseArgs(OntoCommits) :
           rebase(State, a, identity).result = "base_not_ancestor"

\* the base is the series, or there is no base
C22_WitnessNothing ==
    /\ rebase_merge = NoRebase
    /\ \E a \in RebaseArgs(OntoCommits) :
           rebase(State, a, identity).result \in {"no_patches", "no_base"}

\* C23: when the checkout of the new base reports a conflict, HEAD, every
\* reference and the rebase-merge directory are as they were before rebase was
\* called: no sequencing state is left to see.
C23_ConflictLeavesUntouched ==
    \A a \in RebaseArgs(OntoCommits) :
        LET o == rebase(State, a, identity)
        IN o.result = "CheckoutConflict"
           => /\ o.st.head = head
              /\ o.st.refs = refs
              /\ o.st.shead = shead
              /\ o.st.rebase_merge = rebase_merge

-----------------------------------------------------------------------------
(* A rebase step by step *)

\* the steps of rebase with the rename before the plan is written
Steps_rename_early ==
    <<"TempDir", "git-series", "quiet", "interactive", "head-name", "onto",
      "orig-head", "rename", "git-rebase-todo", "run_editor", "checkout_tree", "HEAD",
      "git rebase --continue">>

\* the steps of rebase after its checks, in the order of the code: the scratch
\* directory, its files, the editor, the rename to rebase-merge, the checkout
\* of the new base, HEAD, the sequencer
Steps ==
    <<"TempDir", "git-series", "quiet", "interactive", "head-name", "onto",
      "orig-head", "git-rebase-todo", "run_editor", "rename", "checkout_tree", "HEAD",
      "git rebase --continue">>

\* no rebase running: pc is its position, step the step of Steps it is about
\* to take, scratch whether its scratch directory is there and tmp the files
\* in it, dir what it is building, renamed whether the scratch directory was
\* renamed
IdleRebase ==
    [pc |-> "idle", step |-> 1, scratch |-> FALSE, tmp |-> {}, dir |-> NoRebase,
     onto |-> None, interactive |-> FALSE, renamed |-> FALSE, result |-> ""]

\* what is at the final path after the rename of a scratch directory with the
\* files tmp of the directory dir
Published(tmp, dir) ==
    [marker |-> IF "git-series" \in tmp THEN dir.marker ELSE "foreign",
     onto |-> IF "onto" \in tmp THEN dir.onto ELSE None,
     orig_head |-> IF "orig-head" \in tmp THEN dir.orig_head ELSE None,
     todo |-> IF "git-rebase-todo" \in tmp THEN dir.todo ELSE <<>>,
     files |-> tmp]

StepsInit ==
    \E h \in RebaseCommits :
        LET o == start(Repo(RebaseObjects, [q \in RefNames |-> None], NoShead, h), "x", TRUE)
        IN /\ objects = o.st.objects
           /\ refs = o.st.refs
           /\ shead = o.st.shead
           /\ head = h
           /\ identity = TRUE
           /\ created = Len(o.st.objects) - Len(RebaseObjects)
           /\ last = NoLast
           /\ inv = IdleRebase
           /\ rebase_merge = NoRebase

\* between two rebases the user moves HEAD or sets the base
StepsBetween ==
    /\ inv.pc = "idle"
    /\ (RebaseMoveHead \/ RebaseBase)

\* rebase is called and makes its checks
StepChecks ==
    /\ inv.pc = "idle"
    /\ \E a \in RebaseArgs(OntoCommits) :
           /\ ~a.todo_empty /\ ~a.conflict /\ ~a.status_ok /\ ~a.workdir_differs
           /\ inv' = IF rebase_checked(State, a) # "ok"
                     THEN [IdleRebase EXCEPT !.pc = "failed", !.result = rebase_checked(State, a)]
                     ELSE [IdleRebase EXCEPT !.pc = "running",
                                             !.dir = rebase_dir(State, a.onto),
                                             !.onto = a.onto,
                                             !.interactive = a.interactive]
    /\ UNCHANGED <<objects, refs, shead, head, identity, created, last, rebase_merge>>

\* TempDir::new_in makes the scratch directory, or create_new makes the next
\* file in it; the file cannot be made when the directory is no longer there
StepCreate ==
    /\ inv.pc = "running"
    /\ Steps[inv.step] \in RebaseFiles \cup {"TempDir"}
    /\ inv' = IF Steps[inv.step] = "TempDir"
              THEN [inv EXCEPT !.scratch = TRUE, !.step = @ + 1]
              ELSE IF ~inv.scratch
              THEN [inv EXCEPT !.pc = "failed", !.result = "io_error"]
              ELSE [inv EXCEPT !.tmp = @ \cup {Steps[inv.step]}, !.step = @ + 1]
    /\ UNCHANGED <<objects, refs, shead, head, identity, created, last, rebase_merge>>

\* the step fails and try! returns: the scratch directory is removed when
\* TempDir is dropped, what was renamed stays
StepFails ==
    /\ inv.pc = "running"
    /\ inv' = [inv EXCEPT !.pc = "failed", !.scratch = FALSE, !.tmp = {},
                           !.result = IF Steps[inv.step] = "checkout_tree"
                                      THEN "CheckoutConflict" ELSE "failed"]
    /\ UNCHANGED <<objects, refs, shead, head, identity, created, last, rebase_merge>>

\* with -i the editor runs on the plan; an empty plan ends the rebase
StepEditor ==
    /\ inv.pc = "running"
    /\ Steps[inv.step] = "run_editor"
    /\ \E todo_empty \in BOOLEAN :
           /\ todo_empty => inv.interactive
           /\ inv' = IF todo_empty
                     THEN [inv EXCEPT !.pc = "failed", !.scratch = FALSE, !.tmp = {},
                                      !.result = "nothing_to_do"]
                     ELSE [inv EXCEPT !.step = @ + 1]
    /\ UNCHANGED <<objects, refs, shead, head, identity, created, last, rebase_merge>>

\* the scratch directory becomes rebase-merge, which must not exist
StepRename ==
    /\ inv.pc = "running"
    /\ Steps[inv.step] = "rename"
    /\ inv.scratch
    /\ rebase_merge = NoRebase
    /\ rebase_merge' = Published(inv.tmp, inv.dir)
    /\ inv' = [inv EXCEPT !.scratch = FALSE, !.tmp = {}, !.renamed = TRUE, !.step = @ + 1]
    /\ UNCHANGED <<objects, refs, shead, head, identity, created, last>>

\* the tree of the new base is checked out without conflict
StepCheckoutTree ==
    /\ inv.pc = "running"
    /\ Steps[inv.step] = "checkout_tree"
    /\ inv' = [inv EXCEPT !.step = @ + 1]
    /\ UNCHANGED <<objects, refs, shead, head, identity, created, last, rebase_merge>>

\* HEAD is set to the new base
StepHead ==
    /\ inv.pc = "running"
    /\ Steps[inv.step] = "HEAD"
    /\ head' = inv.dir.onto
    /\ inv' = [inv EXCEPT !.step = @ + 1]
    /\ UNCHANGED <<objects, refs, shead, identity, created, last, rebase_merge>>

\* git rebase --continue runs the plan that is at the final path to its end
StepContinue ==
    /\ inv.pc = "running"
    /\ Steps[inv.step] = "git rebase --continue"
    /\ rebase_merge.marker = "git-series"
    /\ \E end_head \in OntoCommits :
           LET o == rebase_continue(State, rebase_merge, inv.onto, end_head, identity)
           IN /\ created' = created + Len(o.st.objects) - Len(objects)
              /\ created' <= MaxNewObjects
              /\ objects' = CollectedFrom(o.st, Len(RebaseParents)).objects
              /\ refs' = CollectedFrom(o.st, Len(RebaseParents)).refs
              /\ head' = o.st.head
              /\ rebase_merge' = o.st.rebase_merge
              /\ inv' = [inv EXCEPT !.pc = IF o.result = "ok" THEN "done" ELSE "failed",
                                     !.result = o.result]
    /\ UNCHANGED <<shead, identity, last>>

\* rebase has returned
StepReturn ==
    /\ inv.pc \in {"done", "failed"}
    /\ inv' = IdleRebase
    /\ UNCHANGED <<objects, refs, shead, head, identity, created, last, rebase_merge>>

StepsNext ==
    \/ StepsBetween
    \/ StepChecks
    \/ StepCreate
    \/ StepFails
    \/ StepEditor
    \/ StepRename
    \/ StepCheckoutTree
    \/ StepHead
    \/ StepContinue
    \/ StepReturn
    \/ GitOperationBegins
    \/ GitOperationEnds

StepsSpec == StepsInit /\ [][StepsNext]_vars

\* C24: at every step of a rebase, also when a step of the construction of the
\* plan fails and when the plan comes back empty from the editor, the directory
\* at the final path is absent or holds the complete sequencing state: the
\* marker, the target commit, the original head, the head name, the plan and
\* the mode markers.  A directory written in part is never at the final path.
C24_FinalPathAbsentOrComplete ==
    \/ rebase_merge = NoRebase
    \/ rebase_merge = ForeignRebase
    \/ /\ rebase_merge.files = RebaseFiles
       /\ rebase_merge.marker = "git-series"
       /\ rebase_merge.onto # None
       /\ rebase_merge.orig_head # None

\* the scratch directory holds some of the files and nothing is at the final
\* path
C24_Witness ==
    /\ inv.pc = "running"
    /\ inv.scratch
    /\ inv.tmp # {} /\ inv.tmp # RebaseFiles
    /\ rebase_merge = NoRebase

\* the plan came back empty from the editor and nothing is at the final path
C24_WitnessNothingToDo ==
    /\ inv.pc = "failed"
    /\ inv.result = "nothing_to_do"
    /\ rebase_merge = NoRebase

\* the complete directory is at the final path
C24_WitnessComplete ==
    /\ inv.pc = "running"
    /\ inv.renamed
    /\ rebase_merge.files = RebaseFiles

-----------------------------------------------------------------------------
(* Further properties of the commands *)

\* commit gets as far as the message: with a message it would make the commit
AsksMessage(commit_all) ==
    commit_status(State, FALSE, commit_all, "msg", identity).result
        \notin {"no_series", "bad_shead", "read_failed", "CommitNoChanges",
                 "no_series_slot", "base_not_ancestor"}

\* C25 as stated: when the message is empty after normalization, commit makes
\* no history commit and changes no reference, and the process ends as a clean
\* cancel, not with an error exit.
C25_EmptyMessageCleanCancel ==
    \A commit_all \in BOOLEAN :
        LET o == commit_status(State, FALSE, commit_all, "", identity)
        IN AsksMessage(commit_all)
           => /\ o.st = State
              /\ main(o.result).status = 0

\* C25: when the message is empty after normalization, commit makes no history
\* commit and changes no reference; the process prints the error "Aborting
\* series commit due to empty commit message." and exits with status 1.
C25_EmptyMessageAborts ==
    \A commit_all \in BOOLEAN :
        LET o == commit_status(State, FALSE, commit_all, "", identity)
        IN AsksMessage(commit_all)
           => /\ o.result = "empty_message"
              /\ o.st = State
              /\ main(o.result) = [status |-> 1, stderr |-> TRUE]

\* there are staged changes to commit and the message is empty
C25_Witness ==
    /\ AsksMessage(FALSE)
    /\ commit_status(State, FALSE, FALSE, "msg", identity).st.refs # refs
    /\ commit_status(State, FALSE, FALSE, "", identity).result = "empty_message"

-----------------------------------------------------------------------------
(* Series started at the same time.  No series exists yet; each invocation   *)
(* runs start, whose write finds the snapshot references absent.             *)

StartInit ==
    \E h \in UserCommits :
        /\ objects = UserObjects
        /\ refs = [q \in RefNames |-> None]
        /\ shead = NoShead
        /\ head = h
        /\ identity = TRUE
        /\ created = 0
        /\ last = NoLast
        /\ inv = NoInv
        /\ rebase_merge = NoRebase

\* start up to its write: the series must not exist, SHEAD is pointed at it and
\* the snapshots are read
StartLoad(p) ==
    /\ inv[p].pc = "idle"
    /\ \E name \in SeriesNames :
           LET branch_exists == refs[<<SERIES_PREFIX, name>>] # None \/ exists(refs, name)
               sh == Symbolic(SERIES_PREFIX, name)
               r == read(sh, head, refs, objects)
           IN /\ shead' = IF branch_exists THEN shead ELSE sh
              /\ inv' = [inv EXCEPT ![p] =
                     IF branch_exists \/ ~r.ok
                     THEN [@ EXCEPT !.pc = "failed"]
                     ELSE [@ EXCEPT !.pc = "loaded",
                                    !.internals = r.internals,
                                    !.loaded_from = name,
                                    !.seen = [q \in SnapshotPrefixes |-> refs[<<q, name>>]]]]
    /\ UNCHANGED <<objects, refs, head, identity, created, last, rebase_merge>>

StartNext ==
    \/ HeadMoves
    \/ \E p \in Procs : StartLoad(p)
    \/ \E p \in Procs : WriteBegin(p)
    \/ \E p \in Procs : Lookup(p)
    \/ \E p \in Procs : Store(p)

StartSpec == StartInit /\ [][StartNext]_vars

\* C26: an update of a snapshot reference goes through only if the reference
\* still holds what the writer found there, "absent" included: when the writer
\* found no reference and another writer has created it since, the update is
\* rejected and the commit of the other writer stays.
C26_AbsentObservedDetected ==
    \A p \in Procs :
        LET i == inv[p]
            r == store_commit(refs, objects, i.prefix, i.series_name, tb(i), i.old)
        IN (/\ i.pc = "store"
            /\ i.old = None
            /\ refs[<<i.prefix, i.series_name>>] # None)
           => (~r.ok /\ r.refs = refs)

-----------------------------------------------------------------------------
(* Commits made at the same time.  Each invocation runs commit: it reads the *)
(* tip of the history, then creates the history commit and, with -a, writes  *)
(* the snapshots.                                                            *)

\* an invocation of commit that has not begun: did_read tells whether it has
\* read the tip of the history, tip is what it found (None: no history yet),
\* tree and parents what it is about to commit, installed the history commit
\* it put on the reference
CommitIdle ==
    [pc |-> "idle", internals |-> NoInternals, series_name |-> "",
     prefix |-> STAGED_PREFIX, old |-> None,
     seen |-> NoIds, wrote |-> NoIds, replaced |-> NoIds,
     did_read |-> FALSE, tip |-> None, tree |-> EmptyTree, parents |-> <<>>,
     commit_all |-> FALSE, installed |-> None]

\* the series x is started with HEAD at a commit of the project, with or
\* without a first commit, and the series slot is staged or not; created
\* counts the objects the invocations make
CommitInit ==
    \E h \in UserCommits, committed \in BOOLEAN, added \in BOOLEAN :
        LET S0 == start(Repo(UserObjects, [q \in RefNames |-> None], NoShead, h), "x", TRUE).st
            S1 == IF committed THEN commit_status(S0, FALSE, TRUE, "msg", TRUE).st ELSE S0
            S2 == IF added THEN add(S1, {"series"}, TRUE).st ELSE S1
        IN /\ objects = S2.objects
           /\ refs = S2.refs
           /\ shead = S2.shead
           /\ head = h
           /\ identity = TRUE
           /\ created = 0
           /\ last = NoLast
           /\ inv = [p \in Procs |-> CommitIdle]
           /\ rebase_merge = NoRebase

\* commit_status up to the message: the snapshots and the tip of the history
\* are read, the tree is chosen and its parents collected
CommitRead(p) ==
    /\ inv[p].pc = "idle"
    /\ \E commit_all \in BOOLEAN :
           LET internals == read(shead, head, refs, objects).internals
               shead_commit == refs[shead.target]
               tree == IF commit_all THEN internals.working ELSE internals.staged
               ps == parents_from_ids(objects, history_parent_ids(tree))
           IN inv' = [inv EXCEPT ![p] =
                  IF AsksMessage(commit_all) /\ ps.ok
                  THEN [@ EXCEPT !.pc = "commit",
                                 !.did_read = TRUE,
                                 !.tip = shead_commit,
                                 !.tree = tree,
                                 !.parents = (IF shead_commit # None
                                              THEN <<shead_commit>> ELSE <<>>) \o ps.parents,
                                 !.commit_all = commit_all,
                                 !.internals = reset_staged(internals, tree),
                                 !.seen = [q \in SnapshotPrefixes |->
                                              refs[<<q, current_series(shead).name>>]]]
                  ELSE [@ EXCEPT !.pc = "failed"]]
    /\ UNCHANGED <<objects, refs, shead, head, identity, created, last, rebase_merge>>

\* Repository::commit(Some(SHEAD_REF), ..) with the parents collected; with -a
\* the invocation goes on to Internals::write
CommitCreate(p) ==
    /\ inv[p].pc = "commit"
    /\ LET i == inv[p]
           c == commit_update_ref(shead, refs, objects, i.tree, i.parents)
       IN /\ created' = created + Len(c.objects) - Len(objects)
          /\ created' <= MaxNewObjects
          /\ objects' = c.objects
          /\ refs' = c.refs
          /\ inv' = [inv EXCEPT ![p] =
                 IF ~c.ok THEN [i EXCEPT !.pc = "failed"]
                 ELSE [i EXCEPT !.pc = IF i.commit_all THEN "loaded" ELSE "done",
                                !.installed = Len(c.objects)]]
    /\ UNCHANGED <<shead, head, identity, last, rebase_merge>>

CommitNext ==
    \/ HeadMoves
    \/ \E p \in Procs : CommitRead(p)
    \/ \E p \in Procs : CommitCreate(p)
    \/ \E p \in Procs : WriteBegin(p)
    \/ \E p \in Procs : Lookup(p)
    \/ \E p \in Procs : Store(p)

CommitSpec == CommitInit /\ [][CommitNext]_vars

\* the commits on the chain of first parents that ends in c
RECURSIVE FirstParents(_)
FirstParents(c) ==
    IF c = None THEN {}
    ELSE {c} \cup (IF objects[c].parents = <<>> THEN {}
                   ELSE FirstParents(objects[c].parents[1]))

\* C27: the history reference moves only from the tip the commit read: of two
\* invocations of commit that read the same tip, or both found no history, at
\* most one installs its history commit; the other fails, and a commit once
\* installed stays on the history.
C27_HistoryCompareAndSwap ==
    /\ \A p \in Procs, q \in Procs :
           (/\ p # q
            /\ inv[p].did_read /\ inv[q].did_read
            /\ inv[p].tip = inv[q].tip
            /\ inv[q].installed # None)
           => /\ inv[p].installed = None
              /\ inv[p].pc \in {"commit", "failed"}
    /\ \A q \in Procs :
           inv[q].installed # None
           => inv[q].installed \in FirstParents(refs[shead.target])

\* both invocations read the same tip; one has installed its commit and the
\* other has failed
C27_Witness ==
    \E p \in Procs, q \in Procs :
        /\ p # q
        /\ inv[p].did_read /\ inv[q].did_read
        /\ inv[p].tip # None
        /\ inv[p].tip = inv[q].tip
        /\ inv[q].installed # None
        /\ inv[p].pc = "failed"

\* both invocations found no history; one has installed its commit and the
\* other has failed
C27_WitnessAbsent ==
    \E p \in Procs, q \in Procs :
        /\ p # q
        /\ inv[p].did_read /\ inv[q].did_read
        /\ inv[p].tip = None /\ inv[q].tip = None
        /\ inv[q].installed # None
        /\ inv[p].pc = "failed"

-----------------------------------------------------------------------------
(* Properties of the history *)

\* the ids in ascending order without repetition
RECURSIVE Ascending(_)
Ascending(ids) ==
    IF ids = {} THEN <<>>
    ELSE LET least == CHOOSE c \in ids : \A d \in ids : c <= d
         IN <<least>> \o Ascending(ids \ {least})

\* C28: the history commit that commit creates has as parents the tip the
\* history had, if it had one, as first parent, then the commit entries of the
\* committed tree other than "base", sorted and without repetition.  The base
\* is no parent on its own account, and the history only grows: the first
\* parent of the new tip is the old tip.
C28_HistoryParents ==
    \A commit_all \in BOOLEAN :
        LET o == commit_status(State, FALSE, commit_all, "msg", identity)
            old_tip == refs[shead.target]
            new_tip == o.st.refs[shead.target]
            tree == o.st.objects[new_tip].tree
            entries == {tree[s].id : s \in {t \in Slots \ {"base"} :
                                                tree[t].mode = GIT_FILEMODE_COMMIT}}
        IN o.result = "ok"
           => /\ new_tip # None /\ new_tip # old_tip
              /\ new_tip \notin DOMAIN objects
              /\ o.st.objects[new_tip].parents
                     = (IF old_tip # None THEN <<old_tip>> ELSE <<>>) \o Ascending(entries)

\* a commit on top of a history tip whose tree has a base other than its series
C28_Witness ==
    \E commit_all \in BOOLEAN :
        LET o == commit_status(State, FALSE, commit_all, "msg", identity)
            new_tip == o.st.refs[shead.target]
        IN /\ o.result = "ok"
           /\ refs[shead.target] # None
           /\ has(o.st.objects[new_tip].tree, "base")
           /\ o.st.objects[new_tip].tree["base"].id # o.st.objects[new_tip].tree["series"].id
           /\ Len(o.st.objects[new_tip].parents) = 2

\* C29: for every commit on a history reference, the commit in the series slot
\* of its tree and the commit in the base slot, when there is one, are reached
\* from that history commit through parents, although the base is none of its
\* parents.
C29_HistoryReachesSeriesAndBase ==
    \A name \in SeriesNames :
        LET tip == refs[<<SERIES_PREFIX, name>>]
        IN tip # None =>
            \A c \in Created(objects, tip) :
                LET t == objects[c].tree
                IN /\ has(t, "series")
                   /\ t["series"].id \in ReachableFrom(c)
                   /\ has(t, "base") => t["base"].id \in ReachableFrom(c)

\* a history commit whose base is reached through its series only
C29_Witness ==
    \E name \in SeriesNames :
        LET tip == refs[<<SERIES_PREFIX, name>>]
        IN /\ tip # None
           /\ has(objects[tip].tree, "base")
           /\ objects[tip].tree["base"].id # objects[tip].tree["series"].id
           /\ \A i \in DOMAIN objects[tip].parents :
                  objects[tip].parents[i] # objects[tip].tree["base"].id
           /\ objects[tip].tree["base"].id \in ReachableFrom(tip)

\* C30: start does all or nothing: when it fails after its test of existence,
\* because HEAD cannot be resolved when the snapshots are loaded or because
\* they cannot be written, SHEAD names what it named before and no reference
\* of the name has been created.
C30_StartAllOrNothing ==
    \A name \in SeriesNames :
        LET o == start(State, name, identity)
        IN o.result \notin {"ok", "already_exists"}
           => /\ o.st.shead = shead
              /\ o.st.refs = refs

\* the tree of the tip of the history of the current series in S, EmptyTree
\* when it has no commit yet
HistoryTree(S) == TipTree(S, SERIES_PREFIX, current_series(S.shead).name)

\* the persisted staged and working snapshots of the current series in S
StagedTree(S) == TipTree(S, STAGED_PREFIX, current_series(S.shead).name)

WorkingTree(S) == TipTree(S, WORKING_PREFIX, current_series(S.shead).name)

\* C34: after an add that succeeds, each slot named holds in the persisted
\* staged snapshot what it holds in the working snapshot (the same id and mode,
\* or nothing in both), every staged slot not named is as it was, and the
\* working snapshot is as it was but for its series slot, which is HEAD.
C34_AddCopiesWorkingSlots ==
    \A files \in NameSets :
        LET o == add(State, files, identity)
        IN o.result = "ok"
           => /\ \A f \in files : StagedTree(o.st)[f] = WorkingTree(o.st)[f]
              /\ \A f \in Slots \ files : StagedTree(o.st)[f] = StagedTree(State)[f]
              /\ \A f \in Slots \ {"series"} : WorkingTree(o.st)[f] = WorkingTree(State)[f]
              /\ WorkingTree(o.st)["series"] = [id |-> head, mode |-> GIT_FILEMODE_COMMIT]

\* an add of the base that takes the staged base away, the working snapshot
\* having none, and leaves the staged series slot behind HEAD
C34_Witness ==
    LET o == add(State, {"base"}, identity)
    IN /\ o.result = "ok"
       /\ has(StagedTree(State), "base")
       /\ ~has(WorkingTree(State), "base")
       /\ ~has(StagedTree(o.st), "base")
       /\ has(StagedTree(o.st), "series")
       /\ StagedTree(o.st)["series"].id # head

\* C35: after an unadd that succeeds, each slot named holds in the persisted
\* staged snapshot what it holds in the tree of the tip of the history, or
\* nothing when the tip has no such slot or the series has no commit yet; an
\* add of a slot followed by an unadd of it leaves no difference between the
\* staged slot and the history; an unadd that fails on a slot changes no
\* reference.
C35_UnaddRestoresHistorySlots ==
    /\ \A files \in NameSets :
           LET o == unadd(State, files, identity)
           IN /\ o.result = "ok"
                    => /\ \A f \in files : StagedTree(o.st)[f] = HistoryTree(State)[f]
                       /\ \A f \in Slots \ files : StagedTree(o.st)[f] = StagedTree(State)[f]
              /\ o.result = "remove_failed" => o.st = State
    /\ \A f \in Slots :
           LET a == add(State, {f}, identity)
               u == unadd(a.st, {f}, identity)
           IN a.result = "ok" => StagedTree(u.st)[f] = HistoryTree(State)[f]

\* a base is staged and the series has no commit with a base: unadd takes the
\* staged base away; and an unadd of the cover, which is staged nowhere, fails
C35_Witness ==
    LET o == unadd(State, {"base"}, identity)
    IN /\ o.result = "ok"
       /\ has(StagedTree(State), "base")
       /\ ~has(HistoryTree(State), "base")
       /\ ~has(StagedTree(o.st), "base")
       /\ unadd(State, {"cover"}, identity).result = "remove_failed"

\* the history has a base and unadd stages it
C35_WitnessHistory ==
    LET o == unadd(State, {"base"}, identity)
    IN /\ o.result = "ok"
       /\ has(HistoryTree(State), "base")
       /\ StagedTree(o.st)["base"] = HistoryTree(State)["base"]

\* rebase gets as far as the two diffs: the repository is clean and the series
\* has a base that is a proper ancestor of HEAD
ReachesDiffs ==
    /\ rebase_merge = NoRebase
    /\ Loaded.ok
    /\ has(Loaded.internals.working, "base")
    /\ Loaded.internals.working["base"].id \in ReachableFrom(head) \ {head}

\* the working snapshot differs from the tree of the tip of the history
Uncommitted ==
    Loaded.internals.working
        # (IF refs[shead.target] = None THEN EmptyTree ELSE objects[refs[shead.target]].tree)

\* C32 as stated: rebase is rejected, with no sequencing state and nothing
\* changed, whenever the series differs from the tip of the published history
\* or the index from the working tree.
C32_RejectedWhenUncommitted ==
    \A a \in RebaseArgs(OntoCommits) :
        LET o == rebase(State, a, identity)
        IN (ReachesDiffs /\ (Uncommitted \/ a.workdir_differs))
           => (o.result = "unclean" /\ o.st = State)

\* C32: rebase is rejected, with no sequencing state and nothing changed,
\* whenever the index differs from the tree of the series commit or the
\* working directory from the index; both diffs must be empty for rebase to
\* go on, and the message has a line for each diff that is not.  The snapshots
\* are not compared with the published history.
C32_RejectedWhenDiffs ==
    \A a \in RebaseArgs(OntoCommits) :
        LET o == rebase(State, a, identity)
            lines == unclean(a.index_differs, a.workdir_differs)
        IN ReachesDiffs
           => /\ (a.index_differs \/ a.workdir_differs)
                    => /\ o.result = "unclean"
                       /\ o.st = State
                       /\ Len(lines) = (IF a.index_differs THEN 1 ELSE 0)
                                        + (IF a.workdir_differs THEN 1 ELSE 0)
              /\ (~a.index_differs /\ ~a.workdir_differs) => o.result # "unclean"

\* the working directory differs from the index, the index does not differ
\* from the series commit, and rebase is rejected; with both diffs empty it
\* goes on although the base of the series is not committed
C32_Witness ==
    /\ ReachesDiffs
    /\ Uncommitted
    /\ \E a \in RebaseArgs(OntoCommits) :
           /\ ~a.index_differs /\ a.workdir_differs
           /\ rebase(State, a, identity).result = "unclean"
    /\ \E a \in RebaseArgs(OntoCommits) :
           /\ ~a.index_differs /\ ~a.workdir_differs
           /\ rebase(State, a, identity).st # State

\* C33: write persists the snapshots to the staged and working references of
\* the series they were loaded from, also when SHEAD is pointed at another
\* series between the load and the write: snapshots loaded from one series
\* are never written to the references of another.
C33_WritesToSeriesLoaded ==
    \A p \in Procs :
        inv[p].pc \in {"lookup", "store", "done"}
        => inv[p].series_name = inv[p].loaded_from

\* C36: checkout(name) moves SHEAD and HEAD only when checkout_tree has
\* succeeded. With an operation of git in progress, with no reference of the
\* series, with a working snapshot that has no series slot, or with a conflict,
\* checkout fails and SHEAD and HEAD stay; when it succeeds SHEAD names the
\* series and HEAD is the series slot of the tree of the working reference's
\* tip. In no case is a reference of a series or an object changed.
C36_CheckoutMovesAfterTree ==
    \A name \in SeriesNames, conflict \in BOOLEAN,
       keep \in SUBSET Prefixes, in_progress \in {NoRebase, ForeignRebase} :
        LET S == [State EXCEPT !.refs = OnlyBelow(refs, name, keep),
                               !.rebase_merge = in_progress]
            working == TipTree(S, WORKING_PREFIX, name)
            missing == \A prefix \in Prefixes : S.refs[<<prefix, name>>] = None
            o == checkout(S, name, conflict)
        IN /\ o.st.refs = S.refs
           /\ o.st.objects = S.objects
           /\ (conflict \/ in_progress # NoRebase \/ missing \/ ~has(working, "series"))
                  => o.result # "ok"
           /\ o.result # "ok" => o.st.shead = S.shead /\ o.st.head = S.head
           /\ o.result = "ok" =>
                  /\ o.st.shead = Symbolic(SERIES_PREFIX, name)
                  /\ o.st.head = working["series"].id

\* a checkout of another series moves HEAD, and the same checkout with a
\* conflict fails
C36_Witness ==
    \E name \in SeriesNames :
        /\ shead # Symbolic(SERIES_PREFIX, name)
        /\ checkout(State, name, FALSE).result = "ok"
        /\ checkout(State, name, FALSE).st.head # head
        /\ checkout(State, name, TRUE).result = "CheckoutConflict"

\* the last command was a checkout that succeeded and left HEAD where the
\* working snapshot of the series has its series slot
C36_WitnessDone ==
    /\ last.op = "checkout"
    /\ last.result = "ok"
    /\ shead = Symbolic(SERIES_PREFIX, last.name)
    /\ head = WorkingTree(State)["series"].id

\* C37: status changes no reference and creates no commit, and commit without
\* -a changes no reference but
\* the one SHEAD names (the published history): the staged and the working
\* reference of every series, SHEAD and HEAD are after the command what they
\* were before it, whether it succeeds or fails; a commit that succeeds has
\* moved the history.
C37_StatusAndCommitLeaveSnapshots ==
    \A msg \in Messages :
        LET st == commit_status(State, TRUE, FALSE, "", identity).st
            o == commit_status(State, FALSE, FALSE, msg, identity)
        IN /\ st.refs = refs /\ st.shead = shead /\ st.head = head
           /\ st.objects = objects
           /\ o.st.shead = shead /\ o.st.head = head
           /\ \A q \in RefNames :
                  o.st.refs[q] # refs[q] => q = shead.target /\ q[1] = SERIES_PREFIX
           /\ o.result = "ok" => o.st.refs[shead.target] # refs[shead.target]
           /\ o.result # "ok" => o.st = State

\* a commit without -a succeeds where the working snapshot held in memory (its
\* series slot refreshed to a HEAD that has moved) is neither the persisted
\* working snapshot nor the staged one
C37_Witness ==
    LET r == read(shead, head, refs, objects)
    IN /\ shead.kind = "symbolic"
       /\ r.ok
       /\ r.internals.working # WorkingTree(State)
       /\ r.internals.working # r.internals.staged
       /\ commit_status(State, FALSE, FALSE, "msg", identity).result = "ok"

\* the last command was such a commit, and the staged and working references
\* still differ after it
C37_WitnessDone ==
    /\ last.op = "commit"
    /\ ~last.all
    /\ last.result = "ok"
    /\ StagedTree(State) # WorkingTree(State)
    /\ StagedTree(State) = HistoryTree(State)

\* what base and cover leave alone: SHEAD, HEAD, the staged snapshot and every
\* reference but the staged and the working reference of the current series
\* (write creates a staged reference that is absent, with the empty snapshot)
LeavesAllButWorking(o) ==
    /\ o.st.shead = shead
    /\ o.st.head = head
    /\ StagedTree(o.st) = StagedTree(State)
    /\ \A q \in RefNames :
           o.st.refs[q] # refs[q] =>
               /\ q[2] = current_series(shead).name
               /\ q[1] = WORKING_PREFIX \/ (q[1] = STAGED_PREFIX /\ refs[q] = None)

\* the requests of base and of cover that ask for what the working snapshot has
BaseAsksNothing(a) ==
    LET working == read(shead, head, refs, objects).internals.working
    IN \/ a.what = "get"
       \/ a.what = "delete" /\ ~has(working, "base")
       \/ a.what = "set" /\ working["base"].id = a.id

CoverAsksNothing(a) ==
    LET working == read(shead, head, refs, objects).internals.working
    IN IF a.delete THEN ~has(working, "cover")
       ELSE a.text = None \/ a.text = working["cover"].id

\* the outcome o of base or cover on slot: a request that fails or asks for
\* nothing changes nothing; one that writes changes the slot, leaves the
\* staged snapshot and the other references alone, and leaves the slots in kept
\* as they were in the persisted working snapshot
OwnSlot(o, slot, nothing, kept) ==
    /\ o.result # "ok" => o.st = State
    /\ read(shead, head, refs, objects).ok /\ nothing => o.st = State
    /\ o.st # State =>
           /\ LeavesAllButWorking(o)
           /\ WorkingTree(o.st)[slot] # WorkingTree(State)[slot]
           /\ \A s \in kept : WorkingTree(o.st)[s] = WorkingTree(State)[s]

\* C38 as stated: base and cover change their own slot of the persisted
\* working snapshot and no other slot of it.
C38_OnlyOwnSlot ==
    /\ \A a \in BaseArgs :
           OwnSlot(base(State, a.what, a.id, identity), "base",
                   BaseAsksNothing(a), Slots \ {"base"})
    /\ \A a \in CoverArgs :
           OwnSlot(cover(State, a.delete, a.text, identity), "cover",
                   CoverAsksNothing(a), Slots \ {"cover"})

\* C38: base and cover change their own slot of the persisted working
\* snapshot, and its series slot, which becomes HEAD; every other slot, the
\* staged reference, the history, the references of the other series, SHEAD
\* and HEAD stay. A request that fails or that asks for what the working
\* snapshot has already (the same base, -d with no base, -d with no cover, the
\* same cover text) changes nothing.
C38_OwnSlotAndSeries ==
    /\ \A a \in BaseArgs :
           LET o == base(State, a.what, a.id, identity)
           IN /\ OwnSlot(o, "base", BaseAsksNothing(a), Slots \ {"base", "series"})
              /\ o.st # State => WorkingTree(o.st)["series"].id = head
    /\ \A a \in CoverArgs :
           LET o == cover(State, a.delete, a.text, identity)
           IN /\ OwnSlot(o, "cover", CoverAsksNothing(a), Slots \ {"cover", "series"})
              /\ o.st # State => WorkingTree(o.st)["series"].id = head

\* HEAD has moved since the working snapshot was persisted, the history has a
\* commit, and both a base and a cover request would write; a request for the
\* base the snapshot has is possible too
C38_Witness ==
    /\ shead.kind = "symbolic"
    /\ refs[shead.target] # None
    /\ has(WorkingTree(State), "series")
    /\ WorkingTree(State)["series"].id # head
    /\ has(WorkingTree(State), "base")
    /\ \E a \in BaseArgs : base(State, a.what, a.id, identity).st # State
    /\ \E a \in CoverArgs : cover(State, a.delete, a.text, identity).st # State
    /\ \E a \in BaseArgs : a.what = "set" /\ BaseAsksNothing(a)

\* the last command was a base that wrote, and the base is in the working
\* snapshot only
C38_WitnessDone ==
    /\ last.op = "base"
    /\ last.result = "ok"
    /\ has(WorkingTree(State), "base")
    /\ ~has(StagedTree(State), "base")
    /\ ~has(HistoryTree(State), "base")

\* the outcomes in S of the commands that end with Internals::write
Persisting(S) ==
    [start |-> {start(S, name, identity) : name \in SeriesNames},
     add |-> {add(S, files, identity) : files \in NameSets},
     unadd |-> {unadd(S, files, identity) : files \in NameSets},
     base |-> {base(S, a.what, a.id, identity) : a \in BaseArgs},
     cover |-> {cover(S, a.delete, a.text, identity) : a \in CoverArgs},
     commit |-> {commit_status(S, FALSE, TRUE, msg, identity) : msg \in Messages}]

\* C39: after start, add, unadd, base, cover or commit -a has written the
\* snapshots, the tree of the tip of the working reference of the current
\* series has a series slot that is a commit entry of the HEAD the command
\* found; and no working reference has a tip whose tree is without a series
\* slot of commit kind.
C39_WorkingHasSeriesAtHead ==
    /\ \A op \in DOMAIN Persisting(State) : \A o \in Persisting(State)[op] :
           o.wrote => WorkingTree(o.st)["series"] = [id |-> head, mode |-> GIT_FILEMODE_COMMIT]
    /\ \A name \in SeriesNames :
           refs[<<WORKING_PREFIX, name>>] # None
           => kind(TipTree(State, WORKING_PREFIX, name)["series"]) = "commit"

\* HEAD has moved since the working snapshot was persisted, and each of the
\* six commands can write in this state
C39_Witness ==
    /\ shead.kind = "symbolic"
    /\ has(WorkingTree(State), "series")
    /\ WorkingTree(State)["series"].id # head
    /\ \A op \in DOMAIN Persisting(State) :
           \E o \in Persisting(State)[op] : o.wrote /\ o.st # State

\* the last command was an add that wrote, and the series slot it persisted in
\* the working snapshot is not the one staged
C39_WitnessDone ==
    /\ last.op = "add"
    /\ last.result = "ok"
    /\ WorkingTree(State)["series"].id = head
    /\ StagedTree(State)["series"].id # head

-----------------------------------------------------------------------------
(* Further properties of commits made at the same time *)

\* C31: commit -a does all or nothing: in no state has an invocation advanced
\* the history to its new commit and then failed in the write that resets the
\* staged snapshot to the committed tree.
C31_CommitAllOrNothing ==
    \A p \in Procs :
        (inv[p].commit_all /\ inv[p].pc = "failed") => inv[p].installed = None

-----------------------------------------------------------------------------
(* sanitize_summary.  A string is a sequence of characters, a character its  *)
(* code point.                                                               *)

DOT == 46

HYPHEN == 45

UNDERSCORE == 95

\* the characters of the summaries: a, Z, 0, _, ., -, a space and e with an
\* acute accent (not ASCII)
Chars == {97, 90, 48, UNDERSCORE, DOT, HYPHEN, 32, 233}

\* the strings of at most n characters
Strings(n) == UNION {[1..k -> Chars] : k \in 0..n}

ascii_isalnum(c) ==
    (c >= 97 /\ c <= 122) \/ (c >= 65 /\ c <= 90) \/ (c >= 48 /\ c <= 57)

\* the state of the loop of sanitize_summary before the first character
sanitize_start == [s |-> <<>>, prev_dot |-> FALSE, need_space |-> FALSE]

\* the body of the loop asking for a '-' after leading characters as well
sanitize_char_leading(l, c) ==
    IF ascii_isalnum(c) \/ c = UNDERSCORE \/ c = DOT
    THEN [s |-> l.s \o (IF l.need_space THEN <<HYPHEN>> ELSE <<>>)
                    \o (IF ~(l.prev_dot /\ c = DOT) THEN <<c>> ELSE <<>>),
          prev_dot |-> c = DOT,
          need_space |-> FALSE]
    ELSE [s |-> l.s, prev_dot |-> c = DOT, need_space |-> TRUE]

\* the body of the loop of sanitize_summary for the character c
sanitize_char(l, c) ==
    IF ascii_isalnum(c) \/ c = UNDERSCORE \/ c = DOT
    THEN [s |-> l.s \o (IF l.need_space THEN <<HYPHEN>> ELSE <<>>)
                    \o (IF ~(l.prev_dot /\ c = DOT) THEN <<c>> ELSE <<>>),
          prev_dot |-> c = DOT,
          need_space |-> FALSE]
    ELSE [s |-> l.s, prev_dot |-> c = DOT, need_space |-> l.need_space \/ l.s # <<>>]

RECURSIVE trim_right_matches(_)
\* s.trim_right_matches(|c| c == '.' || c == '-')
trim_right_matches(s) ==
    IF s # <<>> /\ s[Len(s)] \in {DOT, HYPHEN}
    THEN trim_right_matches(SubSeq(s, 1, Len(s) - 1))
    ELSE s

RECURSIVE sanitize_loop(_, _)
\* the loop of sanitize_summary over the first n characters
sanitize_loop(summary, n) ==
    IF n = 0 THEN sanitize_start
    ELSE sanitize_char(sanitize_loop(summary, n - 1), summary[n])

sanitize_summary(summary) == trim_right_matches(sanitize_loop(summary, Len(summary)).s)

\* sanitize_summary one character at a time: inv holds the summary, the number
\* of characters done and the variables of the loop
SanitizeInit ==
    /\ objects = UserObjects
    /\ refs = [q \in RefNames |-> None]
    /\ shead = NoShead
    /\ head = None
    /\ identity = TRUE
    /\ created = 0
    /\ last = NoLast
    /\ rebase_merge = NoRebase
    /\ \E summary \in Strings(MaxLen) :
           inv = [pc |-> "loop", summary |-> summary, done |-> 0, l |-> sanitize_start]

\* the loop takes a character it keeps
SanitizeKeeps ==
    /\ inv.pc = "loop"
    /\ inv.done < Len(inv.summary)
    /\ LET c == inv.summary[inv.done + 1]
       IN /\ ascii_isalnum(c) \/ c = UNDERSCORE \/ c = DOT
          /\ inv' = [inv EXCEPT !.done = @ + 1, !.l = sanitize_char(@, c)]
    /\ UNCHANGED <<objects, refs, shead, head, identity, created, last, rebase_merge>>

\* the loop takes any other character
SanitizeDrops ==
    /\ inv.pc = "loop"
    /\ inv.done < Len(inv.summary)
    /\ LET c == inv.summary[inv.done + 1]
       IN /\ ~(ascii_isalnum(c) \/ c = UNDERSCORE \/ c = DOT)
          /\ inv' = [inv EXCEPT !.done = @ + 1, !.l = sanitize_char(@, c)]
    /\ UNCHANGED <<objects, refs, shead, head, identity, created, last, rebase_merge>>

\* after the loop the string is truncated and returned
SanitizeTruncate ==
    /\ inv.pc = "loop"
    /\ inv.done = Len(inv.summary)
    /\ inv' = [inv EXCEPT !.pc = "returned", !.l.s = trim_right_matches(@)]
    /\ UNCHANGED <<objects, refs, shead, head, identity, created, last, rebase_merge>>

SanitizeNext ==
    \/ SanitizeKeeps
    \/ SanitizeDrops
    \/ SanitizeTruncate

SanitizeSpec == SanitizeInit /\ [][SanitizeNext]_vars

\* the characters the loop does not treat as a separator
Keepable(c) == ascii_isalnum(c) \/ c = UNDERSCORE \/ c = DOT

\* the positions of summary whose character is kept: a keepable character that
\* is not a '.' right after a '.'
Kept(summary) ==
    {i \in DOMAIN summary :
        /\ Keepable(summary[i])
        /\ ~(summary[i] = DOT /\ i > 1 /\ summary[i - 1] = DOT)}

\* a kept position that follows a run of other characters which itself follows
\* a kept character
AfterRun(summary, i) ==
    /\ i \in Kept(summary)
    /\ \E j \in Kept(summary) : j < i
    /\ \E k \in 1..(i - 1) :
           /\ ~Keepable(summary[k])
           /\ \A j \in Kept(summary) : ~(k < j /\ j < i)

RECURSIVE Joined(_, _)
\* the kept characters among the first n of summary, with one '-' for each run
\* of other characters between two of them
Joined(summary, n) ==
    IF n = 0 THEN <<>>
    ELSE Joined(summary, n - 1)
         \o (IF AfterRun(summary, n) THEN <<HYPHEN>> ELSE <<>>)
         \o (IF n \in Kept(summary) THEN <<summary[n]>> ELSE <<>>)

\* C40: what sanitize_summary returns is made of ASCII letters, digits, '_',
\* '.' and '-' only; it does not start with '-' and does not end with '.' or
\* '-'; it has no two '.' and no two '-' in a row; it is the kept characters
\* of the summary in their order, leading other characters dropped, '.' after
\* '.' dropped and each run of other characters between kept characters
\* replaced by one '-', cut before the '.' and '-' that would end it; and it
\* is empty for a summary without a character to keep.
C40_SanitizeSummary ==
    inv.pc = "returned" =>
        LET summary == inv.summary
            s == inv.l.s
            joined == Joined(summary, Len(summary))
        IN /\ \A k \in DOMAIN s : ascii_isalnum(s[k]) \/ s[k] \in {UNDERSCORE, DOT, HYPHEN}
           /\ s # <<>> => s[1] # HYPHEN /\ s[Len(s)] \notin {DOT, HYPHEN}
           /\ \A k \in 1..(Len(s) - 1) : s[k] = s[k + 1] => s[k] \notin {DOT, HYPHEN}
           /\ Len(s) <= Len(joined)
           /\ s = SubSeq(joined, 1, Len(s))
           /\ \A k \in (Len(s) + 1)..Len(joined) : joined[k] \in {DOT, HYPHEN}
           /\ (\A k \in DOMAIN summary : ~Keepable(summary[k])) => s = <<>>
           /\ s = sanitize_summary(summary)

\* a summary with a leading other character and an end that is cut, a run of
\* other characters and a '.', has been sanitized
C40_Witness ==
    /\ inv.pc = "returned"
    /\ inv.summary = <<32, 97, 32, DOT>>
    /\ inv.l.s = <<97>>

\* a run of two other characters between kept ones has become one '-'
C40_WitnessRun ==
    /\ inv.pc = "returned"
    /\ inv.summary = <<DOT, HYPHEN, 32, 48>>
    /\ inv.l.s = <<DOT, HYPHEN, 48>>

\* two '.' in a row have become one
C40_WitnessDots ==
    /\ inv.pc = "returned"
    /\ inv.summary = <<90, DOT, DOT, UNDERSCORE>>
    /\ inv.l.s = <<90, DOT, UNDERSCORE>>

====
